---- MODULE Spec2Model ----
(***************************************************************************)
(* A model of draw2pdf: the Draw2pdf document assembler (draw2pdf.cpp,     *)
(* draw2pdf.h) with its stream accumulator and the image pipeline.         *)
(*                                                                         *)
(* One Draw2pdf instance is a record whose fields are the members of the   *)
(* class (m_file, m_objNumber, m_crossRefs, ...) plus the files it writes  *)
(* (disk).  Every C++ method is an operator from instance record to        *)
(* instance record, so that a method calling another one is the            *)
(* composition of the two operators.  A file is the sequence of the        *)
(* fprintf/fwrite calls made on it, each with the number of bytes it       *)
(* wrote; ftell is the sum of those numbers.                               *)
(***************************************************************************)
EXTENDS Integers, Sequences, FiniteSets, TLC

\* ---------------------------------------------------------------- bounds
\* Public calls made on one instance, the destructor included.
MaxCalls == 5
\* Length of the run of equal bytes that begins the data given to the encoder.
MaxRun == 296
\* Length of the free bytes that end the data given to the encoder.
MaxTail == 2
\* Largest width and height, in pixels, of an image given to the repacking loop.
MaxDim == 3
\* Largest number of padding bytes that end a scanline of such an image.
MaxPad == 1

\* ------------------------------------------------------------- constants
\* FILE * m_file = nullptr
NULL == "nullptr"
\* The output files the caller may name.
Filenames == {"A", "B"}
\* ftell(NULL) returns -1L; static_cast<size_t>(-1L) is SIZE_MAX, kept symbolic
\* (it is the only negative offset of the model).
SIZE_MAX == -1
\* PDFLineStyle::LinePattern, PDFFillStyle::FillPattern
LINE_SOLID == "LINE_SOLID"
LINE_NULL == "LINE_NULL"
FILL_SOLID == "FILL_SOLID"
FILL_NULL == "FILL_NULL"

\* ------------------------------------------------------- number formatting
\* Number of characters "%zu" / "%ld" prints for n (SIZE_MAX has 20 digits).
ZuLen(n) ==
    IF n = SIZE_MAX THEN 20
    ELSE IF n < 10 THEN 1
    ELSE IF n < 100 THEN 2
    ELSE IF n < 1000 THEN 3
    ELSE IF n < 10000 THEN 4
    ELSE 5

\* Number of characters "%010zu" prints: zero-padded to at least 10.
Zu10Len(n) == IF ZuLen(n) < 10 THEN 10 ELSE ZuLen(n)

\* Number of characters "%lf" prints for a non-negative whole number v:
\* the integer digits, the point and six decimals.
LfLen(v) == ZuLen(v) + 7

\* Sum of "%lf" widths of a tuple of numbers.
RECURSIVE LfSum(_)
LfSum(vs) == IF vs = << >> THEN 0 ELSE LfLen(Head(vs)) + LfSum(Tail(vs))

\* ------------------------------------------------------------ value types
\* struct PDFColor with its default member values (components 0 or 1 here).
PDFColor(r, g, b) == [m_red |-> r, m_green |-> g, m_blue |-> b]
DefaultColor == PDFColor(0, 0, 0)

\* struct PDFLineStyle, PDFFillStyle, PDFTextStyle and their defaults.
PDFLineStyle(pattern, color, width) ==
    [m_pattern |-> pattern, m_color |-> color, m_width |-> width]
DefaultLineStyle == PDFLineStyle(LINE_SOLID, DefaultColor, 0)
PDFFillStyle(pattern, color) == [m_pattern |-> pattern, m_color |-> color]
DefaultFillStyle == PDFFillStyle(FILL_SOLID, DefaultColor)
PDFTextStyle(height, color) == [m_height |-> height, m_color |-> color]
DefaultTextStyle == PDFTextStyle(10, DefaultColor)

\* struct PDFPoint
PDFPoint(x, y) == [x |-> x, y |-> y]

\* struct PDFBox
PDFBox(min, max) == [m_min |-> min, m_max |-> max]

\* struct PDFCrossRef
PDFCrossRef(objnum, offset) == [m_objnum |-> objnum, m_offset |-> offset]

\* ------------------------------------------------------------------ files
\* One fprintf/fwrite call: what it wrote (t), the number it printed (n, 0 when
\* it prints none) and how many bytes it wrote (len).
Line(t, n, len) == [t |-> t, n |-> n, len |-> len]

\* Number of bytes of a sequence of writes or of appended texts.
RECURSIVE Size(_)
Size(lines) == IF lines = << >> THEN 0 ELSE Head(lines).len + Size(Tail(lines))

\* A file on disk: the writes made on it and their total number of bytes.
EmptyFile == [lines |-> << >>, size |-> 0]

\* ftell(m_file): the current position, or -1 cast to size_t on a null stream.
Ftell(s) == IF s.m_file = NULL THEN SIZE_MAX ELSE s.disk[s.m_file].size

\* A run of consecutive fprintf(m_file, ...) / fwrite(..., m_file) calls:
\* appends to the open file.  On a null stream the C runtime either stops the
\* program (decided by the caller of the method, see NextPageCall) or fails
\* the call and goes on: nothing is written, and nullDeref records that the
\* null handle was used.
FprintfAll(s, lines) ==
    IF s.m_file = NULL
    THEN [s EXCEPT !.nullDeref = TRUE]
    ELSE [s EXCEPT !.disk[s.m_file] =
                      [lines |-> @.lines \o lines, size |-> @.size + Size(lines)]]

\* One fprintf(m_file, ...) call.
Fprintf(s, line) == FprintfAll(s, << line >>)

\* m_crossRefs.push_back(PDFCrossRef(objnum, static_cast<size_t>(ftell(m_file))))
PushCrossRef(s, objnum) ==
    [s EXCEPT !.m_crossRefs = Append(@, PDFCrossRef(objnum, Ftell(s)))]

\* fprintf(m_file, "\r\n"); m_crossRefs.push_back(PDFCrossRef(n, ftell(m_file)));
\* fprintf(m_file, "%zu 0 obj\r\n", n); fprintf(m_file, "<<\r\n");
BeginObject(s, objnum) ==
    FprintfAll(PushCrossRef(Fprintf(s, Line("crlf", 0, 2)), objnum),
               << Line("obj", objnum, ZuLen(objnum) + 8), Line("<<", 0, 4) >>)

\* ------------------------------------------------- PDFStreamAccumulator
\* The accumulated bytes are kept as the sequence of the texts appended, each
\* with its operator (t), its arguments (a) and its length in bytes (len).
Text(t, a, len) == [t |-> t, a |-> a, len |-> len]

\* The largest scratch buffer Printf attempts: bufferSize doubles from 32
\* while it is below 16384.
LargestBuffer == 8192

\* The bound of that loop: for (bufferSize = 32; bufferSize < 16384; ...).
ScratchLimit == 16384

\* The scratch-buffer loop of Printf: bufferSize = 32, 64, ... while
\* bufferSize < 16384; _vsnprintf_s(..., _TRUNCATE, ...) succeeds when the text
\* and its terminating NUL fit, and only then is the text kept.  TRUE when some
\* attempted buffer holds the text.
RECURSIVE PrintfFits(_, _)
PrintfFits(len, bufferSize) ==
    IF ~(bufferSize < 16384) THEN FALSE
    ELSE IF len < bufferSize THEN TRUE
    ELSE PrintfFits(len, bufferSize * 2)

\* PDFStreamAccumulator::Printf on m_contentStream: AddData(buffer), where
\* buffer is the rendered text, or empty when no attempted buffer held it.
Printf(s, text) ==
    IF PrintfFits(text.len, 32)
    THEN [s EXCEPT !.m_contentStream = Append(@, text)]
    ELSE s

\* A run of consecutive Printf calls.
RECURSIVE PrintfAll(_, _)
PrintfAll(s, texts) ==
    IF texts = << >> THEN s
    ELSE PrintfAll(Printf(s, Head(texts)), Tail(texts))

\* ------------------------------------------------------- Ascii85Encoder
\* const size_t lineWidth = 72
lineWidth == 72
CR == 13
LF == 10

\* The 32-bit tuple is kept as its four bytes, most significant first, so that
\* no intermediate value leaves the integer range of the checker.
ZeroTuple == << 0, 0, 0, 0 >>

\* Ascii85Encoder after m_output.clear(); m_column = 0; m_tuple = 0; m_count = 0
NewEncoder == [m_output |-> << >>, m_column |-> 0, m_tuple |-> ZeroTuple, m_count |-> 0]

\* tuple / 85 (q) and tuple % 85 (r) by long division over the four bytes.
RECURSIVE DivMod85(_, _, _)
DivMod85(bytes, quot, rem) ==
    IF bytes = << >> THEN [q |-> quot, r |-> rem]
    ELSE DivMod85(Tail(bytes), Append(quot, (rem * 256 + Head(bytes)) \div 85),
                  (rem * 256 + Head(bytes)) % 85)

\* for (index = 0; index < 5; ++index) { buf[index] = tuple % 85; tuple /= 85; }
\* dm is the quotient and remainder of the tuple still to expand.
RECURSIVE Base85Digits(_, _)
Base85Digits(dm, n) ==
    IF n = 1 THEN << dm.r >>
    ELSE << dm.r >> \o Base85Digits(DivMod85(dm.q, << >>, 0), n - 1)

\* m_output.push_back(c); if (m_column++ >= lineWidth) { m_column = 0; CRLF }
PushChar(e, c) ==
    IF e.m_column >= lineWidth
    THEN [e EXCEPT !.m_output = @ \o << c, CR, LF >>, !.m_column = 0]
    ELSE [e EXCEPT !.m_output = Append(@, c), !.m_column = @ + 1]

\* The output loop of EncodeTuple: for (index = ...; index <= count; ++index)
\* pushes buf[4 - index] + '!'.
RECURSIVE EmitDigits(_, _, _, _)
EmitDigits(e, buf, index, count) ==
    IF index > count THEN e
    ELSE EmitDigits(PushChar(e, buf[(4 - index) + 1] + 33), buf, index + 1, count)

\* A faulty EncodeTuple that emits count digits, one too few: C30 tells it
\* apart.
EncodeTupleOneDigitShort(e, tuple, count) ==
    EmitDigits(e, Base85Digits(DivMod85(tuple, << >>, 0), 5), 0, count - 1)

\* Ascii85Encoder::EncodeTuple(tuple, count)
EncodeTuple(e, tuple, count) ==
    EmitDigits(e, Base85Digits(DivMod85(tuple, << >>, 0), 5), 0, count)

\* A faulty case 3 that knows no shortcut for a zero tuple: C14 tells it apart.
EncodeFullTupleWithoutShortcut(e) ==
    [EncodeTuple(e, e.m_tuple, e.m_count) EXCEPT !.m_tuple = ZeroTuple, !.m_count = 0]

\* case 3 of EncodeByte, after m_tuple |= c: 'z' or the five digits, then
\* m_tuple = 0; m_count = 0.
EncodeFullTuple(e) ==
    [(IF e.m_tuple = ZeroTuple THEN PushChar(e, 122)
      ELSE EncodeTuple(e, e.m_tuple, e.m_count))
     EXCEPT !.m_tuple = ZeroTuple, !.m_count = 0]

\* Ascii85Encoder::EncodeByte(c): switch (m_count++) ors c into its byte of
\* m_tuple (that byte is zero before).
EncodeByte(e, c) ==
    IF e.m_count < 3
    THEN [e EXCEPT !.m_count = @ + 1, !.m_tuple[e.m_count + 1] = c]
    ELSE EncodeFullTuple([e EXCEPT !.m_count = @ + 1, !.m_tuple[e.m_count + 1] = c])

\* for (offset = lo - 1; offset < hi; ++offset) EncodeByte(data[offset]),
\* split in halves to keep the evaluation shallow.  m_count is 0 .. 3 between
\* two bytes; reading it first makes the evaluation of e finish before the
\* bytes of this range are taken up.
RECURSIVE EncodeRange(_, _, _, _)
EncodeRange(e, data, lo, hi) ==
    IF lo > hi \/ e.m_count > 3 THEN e
    ELSE IF lo = hi THEN EncodeByte(e, data[lo])
    ELSE EncodeRange(EncodeRange(e, data, lo, (lo + hi) \div 2),
                     data, (lo + hi) \div 2 + 1, hi)

\* The input loop of EncodeToAscii85.
EncodeBytes(e, data) == EncodeRange(e, data, 1, Len(data))

\* "Encode any partial remaining data."
EncodePartial(e) ==
    IF e.m_count > 0 THEN EncodeTuple(e, e.m_tuple, e.m_count) ELSE e

\* A faulty Terminate that never breaks the line before "~>": C31 tells it
\* apart.
TerminateWithoutLineBreak(e) == e.m_output \o << 126, 62, CR, LF >>

\* "Terminate the last line", then "~>" and a newline.
Terminate(e) ==
    (IF e.m_column + 2 > lineWidth THEN e.m_output \o << CR, LF >> ELSE e.m_output)
    \o << 126, 62, CR, LF >>

\* Ascii85Encoder::EncodeToAscii85(data, numBytes): the encoded bytes.
EncodeToAscii85(data) ==
    IF Len(data) < 1 THEN NewEncoder.m_output
    ELSE Terminate(EncodePartial(EncodeBytes(NewEncoder, data)))

\* ------------------------------------------------------- image pipeline
\* struct PDFImage
PDFImage(numX, numY, bpp, stride, pixels) ==
    [m_numX |-> numX, m_numY |-> numY, m_bpp |-> bpp, m_stride |-> stride,
     m_objNum |-> 0, m_pixels |-> pixels]

\* The repacking loop of DoWriteImage.  rawData is allocated with
\* numY * numX * bpp / 8 zero bytes; scanline y is written from index
\* y * numX * bpp / 8 on, outChannels bytes a pixel, and the input pointer
\* skips one more byte a pixel when bpp is 32.
RawData(image) ==
    LET size        == (image.m_numY * image.m_numX * image.m_bpp) \div 8
        outChannels == IF image.m_bpp = 8 THEN 1 ELSE 3
        inStep      == IF image.m_bpp = 32 THEN outChannels + 1 ELSE outChannels
        RowStart(y) == (y * image.m_numX * image.m_bpp) \div 8
        \* the byte written at output index i (from 0) by scanline y, if any
        Written(i, y) ==
            IF i - RowStart(y) >= 0 /\ i - RowStart(y) < image.m_numX * outChannels
            THEN << image.m_pixels[y * image.m_stride
                                   + ((i - RowStart(y)) \div outChannels) * inStep
                                   + ((i - RowStart(y)) % outChannels) + 1] >>
            ELSE << >>
        \* scanlines are written in ascending y: the last writer of i wins
        Writers(i) == { y \in 0 .. image.m_numY - 1 : Written(i, y) # << >> }
        Byte(i) ==
            IF Writers(i) = {} THEN 0
            ELSE Written(i, CHOOSE y \in Writers(i) : \A y2 \in Writers(i) : y2 <= y)[1]
    IN [i \in 1 .. size |-> Byte(i - 1)]

\* A faulty DeflateData that hands back its input when compress() fails:
\* C29 tells it apart.
DeflateDataFallingBack(numBytes, zok) == IF zok THEN numBytes + 11 ELSE numBytes

\* DeflateData(data, numBytes): the number of bytes returned.  compress() is
\* the external zlib: zok says whether it returned Z_OK.  A successful call
\* is given the size of a stored deflate stream (2 header bytes, one 5-byte
\* block header, 4 checksum bytes).
DeflateData(numBytes, zok) == IF zok THEN numBytes + 11 ELSE 0

\* DoWriteImage up to "/ColorSpace": the object header and the image
\* dictionary entries that do not depend on the encoding.
ImageDictionary(s, index) ==
    FprintfAll(BeginObject(s, s.m_images[index + 1].m_objNum), <<
       Line("/Type /XObject", 0, 16),
       Line("/Subtype /Image", 0, 17),
       Line("/Name /Im", index, ZuLen(index) + 11),
       Line("/Width", s.m_images[index + 1].m_numX,
            ZuLen(s.m_images[index + 1].m_numX) + 9),
       Line("/Height", s.m_images[index + 1].m_numY,
            ZuLen(s.m_images[index + 1].m_numY) + 10),
       Line("/BitsPerComponent 8", 0, 21),
       IF s.m_images[index + 1].m_bpp = 8
       THEN Line("/ColorSpace /DeviceGray", 0, 25)
       ELSE Line("/ColorSpace /DeviceRGB", 0, 24) >>)

\* A faulty choice of codec that always runs the Ascii85 encoder: C20 tells it
\* apart.
EncodedImageSizeAlwaysAscii85(rawData, compress, zok) == Len(EncodeToAscii85(rawData))

\* encodedData.size() in DoWriteImage: DeflateData(rawData) when compress,
\* else enc.EncodeToAscii85(rawData).
EncodedImageSize(rawData, compress, zok) ==
    IF compress THEN DeflateData(Len(rawData), zok)
    ELSE Len(EncodeToAscii85(rawData))

\* DoWriteImage from "/Filter" to "endobj".
ImageStream(s, index, compress, encodedSize) ==
    FprintfAll(s, <<
       IF compress
       THEN Line("/Filter /FlateDecode", 0, 22)
       ELSE Line("/Filter /ASCII85Decode", 0, 24),
       Line("/Length", encodedSize, ZuLen(encodedSize) + 10),
       Line(">>", 0, 4),
       Line("stream", 0, 8),
       Line(IF compress THEN "deflated image" ELSE "ascii85 image", index, encodedSize),
       Line("crlf", 0, 2),
       Line("endstream", 0, 11),
       Line("endobj", 0, 8) >>)

\* Draw2pdf::DoWriteImage(index, compress); zok is the outcome of compress().
DoWriteImage(s, index, compress, zok) ==
    ImageStream(ImageDictionary(s, index), index, compress,
                EncodedImageSize(RawData(s.m_images[index + 1]), compress, zok))

\* for (index = from; index < m_images.size(); ++index) DoWriteImage(index, ...)
RECURSIVE WriteImages(_, _, _)
WriteImages(s, index, z) ==
    IF index >= Len(s.m_images) THEN s
    ELSE WriteImages(DoWriteImage(s, index, s.m_compressImages, z.deflate[index + 1]),
                     index + 1, z)

\* ---------------------------------------------------------------- Draw2pdf
\* Draw2pdf::Draw2pdf() = default: the member initializers of draw2pdf.h, and
\* no file written yet.  nullDeref is history: a write was attempted on a
\* null m_file.
NewDraw2pdf ==
    [m_file              |-> NULL,
     m_pageMinimumPoints |-> PDFPoint(0, 0),
     m_pageMaximumPoints |-> PDFPoint(0, 0),
     m_lineStyle         |-> DefaultLineStyle,
     m_fillStyle         |-> DefaultFillStyle,
     m_textStyle         |-> DefaultTextStyle,
     m_crossRefs         |-> << >>,
     m_objNumber         |-> 1,
     m_catalogObjNumber  |-> 0,
     m_pagesObjNumber    |-> 0,
     m_contentsObjNumber |-> 0,
     m_xobjectObjNumber  |-> 0,
     m_pageObjectNumbers |-> << >>,
     m_contentStream     |-> << >>,
     m_images            |-> << >>,
     m_compressImages    |-> FALSE,
     m_compressContent   |-> FALSE,
     disk                |-> [f \in Filenames |-> EmptyFile],
     nullDeref           |-> FALSE]

\* DoBeginPage: size_t pageObjNumber = m_objNumber++;
\* m_pageObjectNumbers.push_back(pageObjNumber); the object header and the
\* entries up to "/MediaBox".
PageObject(s) ==
    FprintfAll(BeginObject([s EXCEPT !.m_objNumber = @ + 1,
                                     !.m_pageObjectNumbers = Append(@, s.m_objNumber)],
                           s.m_objNumber), <<
       Line("/Type /Page", 0, 13),
       Line("/Parent", s.m_pagesObjNumber, ZuLen(s.m_pagesObjNumber) + 14),
       Line("/MediaBox", 0,
            19 + LfSum(<< s.m_pageMinimumPoints.x, s.m_pageMinimumPoints.y,
                          s.m_pageMaximumPoints.x, s.m_pageMaximumPoints.y >>)) >>)

\* DoBeginPage: m_contentsObjNumber = m_objNumber++; "/Contents" to "/ProcSet".
PageContents(s) ==
    FprintfAll([s EXCEPT !.m_contentsObjNumber = s.m_objNumber, !.m_objNumber = @ + 1], <<
       Line("/Contents", s.m_objNumber, ZuLen(s.m_objNumber) + 16),
       Line("/Resources", 0, 12),
       Line("<<", 0, 4),
       Line("/ProcSet", 0, 49) >>)

\* A faulty PageXObject that reads the counter without incrementing it: C4
\* tells it apart.
PageXObjectKeepingCounter(s) ==
    FprintfAll([s EXCEPT !.m_xobjectObjNumber = s.m_objNumber], <<
       Line("/XObject", s.m_objNumber, ZuLen(s.m_objNumber) + 15),
       Line(">>", 0, 4),
       Line(">>", 0, 4),
       Line("endobj", 0, 8) >>)

\* DoBeginPage: m_xobjectObjNumber = m_objNumber++; "/XObject" to "endobj".
PageXObject(s) ==
    FprintfAll([s EXCEPT !.m_xobjectObjNumber = s.m_objNumber, !.m_objNumber = @ + 1], <<
       Line("/XObject", s.m_objNumber, ZuLen(s.m_objNumber) + 15),
       Line(">>", 0, 4),
       Line(">>", 0, 4),
       Line("endobj", 0, 8) >>)

\* A faulty DoBeginPage that reserves the three numbers and writes nothing:
\* C27 tells it apart.
DoBeginPageReservingOnly(s) ==
    [s EXCEPT !.m_pageObjectNumbers = Append(@, s.m_objNumber),
              !.m_contentsObjNumber = s.m_objNumber + 1,
              !.m_xobjectObjNumber = s.m_objNumber + 2,
              !.m_objNumber = @ + 3]

\* Draw2pdf::DoBeginPage()
DoBeginPage(s) == PageXObject(PageContents(PageObject(s)))

\* A faulty content stream object whose uncompressed /Length counts the
\* line end written after the data: C38 tells it apart.
ContentObjectCountingLineEnd(s, zok) ==
    FprintfAll(BeginObject(s, s.m_contentsObjNumber),
       IF ~s.m_compressContent
       THEN << Line("/Length", Size(s.m_contentStream) + 2,
                    ZuLen(Size(s.m_contentStream) + 2) + 10),
               Line(">>", 0, 4),
               Line("stream", 0, 8),
               [t |-> "content", n |-> 0, len |-> Size(s.m_contentStream),
                data |-> s.m_contentStream],
               Line("crlf", 0, 2),
               Line("endstream", 0, 11),
               Line("endobj", 0, 8) >>
       ELSE << Line("/Filter /FlateDecode", 0, 22),
               Line("/Length", DeflateData(Size(s.m_contentStream), zok),
                    ZuLen(DeflateData(Size(s.m_contentStream), zok)) + 10),
               Line(">>", 0, 4),
               Line("stream", 0, 8),
               [t |-> "deflated content", n |-> 0,
                len |-> DeflateData(Size(s.m_contentStream), zok),
                data |-> IF zok THEN s.m_contentStream ELSE << >>],
               Line("crlf", 0, 2),
               Line("endstream", 0, 11),
               Line("endobj", 0, 8) >>)

\* DoEndPage: the page content stream object; zok is the outcome of
\* compress() on the content (consulted when m_compressContent is set).
ContentObject(s, zok) ==
    FprintfAll(BeginObject(s, s.m_contentsObjNumber),
       IF ~s.m_compressContent
       THEN << Line("/Length", Size(s.m_contentStream),
                    ZuLen(Size(s.m_contentStream)) + 10),
               Line(">>", 0, 4),
               Line("stream", 0, 8),
               [t |-> "content", n |-> 0, len |-> Size(s.m_contentStream),
                data |-> s.m_contentStream],
               Line("crlf", 0, 2),
               Line("endstream", 0, 11),
               Line("endobj", 0, 8) >>
       ELSE << Line("/Filter /FlateDecode", 0, 22),
               Line("/Length", DeflateData(Size(s.m_contentStream), zok),
                    ZuLen(DeflateData(Size(s.m_contentStream), zok)) + 10),
               Line(">>", 0, 4),
               Line("stream", 0, 8),
               [t |-> "deflated content", n |-> 0,
                len |-> DeflateData(Size(s.m_contentStream), zok),
                data |-> IF zok THEN s.m_contentStream ELSE << >>],
               Line("crlf", 0, 2),
               Line("endstream", 0, 11),
               Line("endobj", 0, 8) >>)

\* for (index = from; index < m_images.size(); ++index)
\*    fprintf(m_file, "/Im%zu %zu 0 R\r\n", index, m_images[index].m_objNum);
XObjectEntries(s) ==
    [k \in 1 .. Len(s.m_images) |->
        [t |-> "/Im", n |-> s.m_images[k].m_objNum, name |-> k - 1,
         len |-> 10 + ZuLen(k - 1) + ZuLen(s.m_images[k].m_objNum)]]

\* DoEndPage: the XObject dictionary object listing the images of the page.
XObjectObject(s) ==
    FprintfAll(BeginObject(s, s.m_xobjectObjNumber),
               XObjectEntries(s) \o << Line(">>", 0, 4), Line("endobj", 0, 8) >>)

\* DoEndPage: m_contentStream.clear(); m_images.clear()
ClearPage(s) == [s EXCEPT !.m_contentStream = << >>, !.m_images = << >>]

\* Draw2pdf::DoEndPage(); z.deflate[0] is the outcome of compress() on the
\* content stream, z.deflate[k] on the k-th image of the page.
DoEndPage(s, z) ==
    ClearPage(WriteImages(XObjectObject(ContentObject(s, z.deflate[0])), 0, z))

\* The position x takes among the sorted entries: after those that compare
\* less, and after or before its equals as tie says.
InsertCrossRef(sorted, x, tie) ==
    SubSeq(sorted, 1,
           Cardinality({i \in 1 .. Len(sorted) :
                          IF tie THEN sorted[i].m_objnum < x.m_objnum
                                 ELSE sorted[i].m_objnum <= x.m_objnum}))
    \o << x >> \o
    SubSeq(sorted,
           Cardinality({i \in 1 .. Len(sorted) :
                          IF tie THEN sorted[i].m_objnum < x.m_objnum
                                 ELSE sorted[i].m_objnum <= x.m_objnum}) + 1,
           Len(sorted))

\* std::sort(m_crossRefs.begin(), m_crossRefs.end(), a.m_objnum < b.m_objnum):
\* std::sort leaves the order of entries with equal object numbers
\* unspecified; tie chooses whether an entry goes before or after its equals.
RECURSIVE SortCrossRefs(_, _)
SortCrossRefs(refs, tie) ==
    IF refs = << >> THEN << >>
    ELSE InsertCrossRef(SortCrossRefs(SubSeq(refs, 1, Len(refs) - 1), tie),
                        refs[Len(refs)], tie)

\* Close: the "Pages" object with the list of child pages.
PagesObject(s) ==
    FprintfAll(BeginObject(s, s.m_pagesObjNumber),
       << Line("/Type /Pages /Kids [", 0, 20) >>
       \o [k \in 1 .. Len(s.m_pageObjectNumbers) |->
             Line("kid", s.m_pageObjectNumbers[k], ZuLen(s.m_pageObjectNumbers[k]) + 5)]
       \o << Line("]", 0, 3),
             Line("/Count", Len(s.m_pageObjectNumbers),
                  ZuLen(Len(s.m_pageObjectNumbers)) + 9),
             Line(">>", 0, 4),
             Line("endobj", 0, 8) >>)

\* Close: std::sort of m_crossRefs, then fprintf(m_file, "\r\n").
SortedCrossRefs(s, tie) ==
    Fprintf([s EXCEPT !.m_crossRefs = SortCrossRefs(@, tie)], Line("crlf", 0, 2))

\* A faulty EntryCount that forgets the free entry: C2 tells it apart.
EntryCountWithoutFreeEntry(s) == Len(s.m_crossRefs)

\* m_crossRefs.size() + 1: the entry count of the xref header and of /Size.
EntryCount(s) == Len(s.m_crossRefs) + 1

\* A faulty CrossRefTable that takes the offset after the "xref" line is
\* written: C25 tells it apart.
CrossRefTableOffsetAfterKeyword(s) ==
    FprintfAll(s,
       << Line("xref", 0, 6),
          Line("0 count", EntryCount(s), ZuLen(EntryCount(s)) + 4),
          Line("free entry", 0, 20) >>
       \o [k \in 1 .. Len(s.m_crossRefs) |->
             Line("entry", s.m_crossRefs[k].m_offset,
                  Zu10Len(s.m_crossRefs[k].m_offset) + 10)]
       \o << Line("trailer", 0, 9),
             Line("<< ", 0, 5),
             Line("/ID", 0, 75),
             [t |-> "/Size", n |-> EntryCount(s), root |-> 1,
              len |-> ZuLen(EntryCount(s)) + 23],
             Line("startxref", 0, 11),
             Line("xref offset", Ftell(s) + 6, ZuLen(Ftell(s) + 6) + 2),
             Line("%%EOF", 0, 7) >>)

\* Close from long xrefTableOffset = ftell(m_file) to "%%EOF": the cross
\* reference table, the trailer (whose /Root is the literal 1) and startxref.
CrossRefTable(s) ==
    FprintfAll(s,
       << Line("xref", 0, 6),
          Line("0 count", EntryCount(s), ZuLen(EntryCount(s)) + 4),
          Line("free entry", 0, 20) >>
       \o [k \in 1 .. Len(s.m_crossRefs) |->
             Line("entry", s.m_crossRefs[k].m_offset,
                  Zu10Len(s.m_crossRefs[k].m_offset) + 10)]
       \o << Line("trailer", 0, 9),
             Line("<< ", 0, 5),
             Line("/ID", 0, 75),
             [t |-> "/Size", n |-> EntryCount(s), root |-> 1,
              len |-> ZuLen(EntryCount(s)) + 23],
             Line("startxref", 0, 11),
             Line("xref offset", Ftell(s), ZuLen(Ftell(s)) + 2),
             Line("%%EOF", 0, 7) >>)

\* Close: fclose(m_file); m_file = nullptr
CloseFile(s) == [s EXCEPT !.m_file = NULL]

\* A faulty ResetMembers that leaves the object counter where it is: C7 tells
\* it apart.
ResetMembersKeepingCounter(s) ==
    [s EXCEPT !.m_lineStyle = DefaultLineStyle,
              !.m_fillStyle = DefaultFillStyle,
              !.m_textStyle = DefaultTextStyle,
              !.m_crossRefs = << >>,
              !.m_catalogObjNumber = 0,
              !.m_pagesObjNumber = 0,
              !.m_pageObjectNumbers = << >>,
              !.m_contentStream = << >>,
              !.m_images = << >>]

\* The members Close resets "to default state for next PDF file".
ResetMembers(s) ==
    [s EXCEPT !.m_lineStyle = DefaultLineStyle,
              !.m_fillStyle = DefaultFillStyle,
              !.m_textStyle = DefaultTextStyle,
              !.m_crossRefs = << >>,
              !.m_objNumber = 1,
              !.m_catalogObjNumber = 0,
              !.m_pagesObjNumber = 0,
              !.m_pageObjectNumbers = << >>,
              !.m_contentStream = << >>,
              !.m_images = << >>]

\* A faulty Finalize that writes the Pages object before it ends the page:
\* C26 tells it apart.
FinalizePagesFirst(s, z) ==
    CloseFile(CrossRefTable(SortedCrossRefs(DoEndPage(PagesObject(s), z), z.tie)))

\* Draw2pdf::Close() from DoEndPage() to fclose(m_file); m_file = nullptr.
Finalize(s, z) ==
    CloseFile(CrossRefTable(SortedCrossRefs(PagesObject(DoEndPage(s, z)), z.tie)))

\* Draw2pdf::Close()
Close(s, z) ==
    IF s.m_file = NULL THEN s ELSE ResetMembers(Finalize(s, z))

\* A faulty OpenFile that goes on with the named file although it did not
\* open: C10 tells it apart.
OpenFileIgnoringFailure(s, filename, pageMinimumPoints, pageMaximumPoints, fopenOk) ==
    [s EXCEPT !.m_pageMinimumPoints = pageMinimumPoints,
              !.m_pageMaximumPoints = pageMaximumPoints,
              !.m_file = filename, !.disk[filename] = EmptyFile]

\* Open: m_pageMinimumPoints = ...; m_pageMaximumPoints = ...; _wfopen_s, which
\* sets m_file to the new empty file, or to null when it fails.
OpenFile(s, filename, pageMinimumPoints, pageMaximumPoints, fopenOk) ==
    IF fopenOk
    THEN [s EXCEPT !.m_pageMinimumPoints = pageMinimumPoints,
                   !.m_pageMaximumPoints = pageMaximumPoints,
                   !.m_file = filename, !.disk[filename] = EmptyFile]
    ELSE [s EXCEPT !.m_pageMinimumPoints = pageMinimumPoints,
                   !.m_pageMaximumPoints = pageMaximumPoints,
                   !.m_file = NULL]

\* Open: the PDF file signature.
Signature(s) ==
    FprintfAll(s, << Line("%PDF-1.4", 0, 10),
                     Line("%binary", 0, 8),
                     Line("%generator", 0, 37) >>)

\* Open: m_catalogObjNumber = m_objNumber++; m_pagesObjNumber = m_objNumber++;
\* and the catalog object.
CatalogObject(s) ==
    FprintfAll(BeginObject([s EXCEPT !.m_catalogObjNumber = s.m_objNumber,
                                     !.m_pagesObjNumber = s.m_objNumber + 1,
                                     !.m_objNumber = @ + 2],
                           s.m_objNumber), <<
       Line("/Type /Catalog", 0, 16),
       Line("/Pages", s.m_objNumber + 1, ZuLen(s.m_objNumber + 1) + 13),
       Line(">>", 0, 4),
       Line("endobj", 0, 8) >>)

\* Open after Close() and the _wfopen_s: when the file did not open, Open
\* throws here (see OpenThrows) and the instance is left as it is.
WriteHeader(s) ==
    IF s.m_file = NULL THEN s ELSE DoBeginPage(CatalogObject(Signature(s)))

\* A faulty Open that does not close the document that is open: C35 tells it
\* apart.
OpenWithoutClose(s, filename, pageMinimumPoints, pageMaximumPoints, fopenOk, z) ==
    WriteHeader(OpenFile(s, filename, pageMinimumPoints, pageMaximumPoints, fopenOk))

\* Draw2pdf::Open(filename, pageMinimumPoints, pageMaximumPoints); fopenOk is
\* whether _wfopen_s opened the file.
Open(s, filename, pageMinimumPoints, pageMaximumPoints, fopenOk, z) ==
    WriteHeader(OpenFile(Close(s, z), filename, pageMinimumPoints,
                         pageMaximumPoints, fopenOk))

\* class PDFException thrown by Open: PDFException(__FILEW__, __LINE__,
\* "Failed opening file for writing:  " + filename), or none.
NoException == [m_srcFile |-> "", m_srcLine |-> 0, m_errorMessage |-> << >>]
OpenThrows(filename, fopenOk) ==
    IF fopenOk THEN NoException
    ELSE [m_srcFile |-> "draw2pdf.cpp", m_srcLine |-> 142,
          m_errorMessage |-> << "Failed opening file for writing:  ", filename >>]

\* A faulty destructor that does not call Close: C9 tells it apart.
DestructorWithoutClose(s, z) == s

\* Draw2pdf::~Draw2pdf()
Destructor(s, z) == Close(s, z)

\* Draw2pdf::NextPage()
NextPage(s, z) == DoBeginPage(DoEndPage(s, z))

\* Draw2pdf::EnableImageCompression(enable), EnableContentCompression(enable)
EnableImageCompression(s, enable) == [s EXCEPT !.m_compressImages = enable]
EnableContentCompression(s, enable) == [s EXCEPT !.m_compressContent = enable]

\* Draw2pdf::SetLineStyle(style)
SetLineStyle(s, style) ==
    PrintfAll([s EXCEPT !.m_lineStyle = style], <<
       Text("RG", << style.m_color.m_red, style.m_color.m_green, style.m_color.m_blue >>,
            LfSum(<< style.m_color.m_red, style.m_color.m_green,
                     style.m_color.m_blue >>) + 7),
       Text("w", << style.m_width >>, LfLen(style.m_width) + 4) >>)

\* Draw2pdf::SetFillStyle(style)
SetFillStyle(s, style) ==
    Printf([s EXCEPT !.m_fillStyle = style],
           Text("rg", << style.m_color.m_red, style.m_color.m_green, style.m_color.m_blue >>,
                LfSum(<< style.m_color.m_red, style.m_color.m_green,
                         style.m_color.m_blue >>) + 7))

\* Draw2pdf::SetTextStyle(style)
SetTextStyle(s, style) == [s EXCEPT !.m_textStyle = style]

\* The path loop of DrawPolyline and DrawPolygon: "%lf %lf %c\r\n" with 'm'
\* for the first point and 'l' for the others.
PathTexts(points) ==
    [k \in 1 .. Len(points) |->
        Text(IF k = 1 THEN "m" ELSE "l", << points[k].x, points[k].y >>,
             LfSum(<< points[k].x, points[k].y >>) + 5)]

\* A faulty DrawPolyline that draws nothing when the fill style is null: C16
\* tells it apart.
DrawPolylineMindingFill(s, points) ==
    IF s.m_lineStyle.m_pattern = LINE_NULL \/ s.m_fillStyle.m_pattern = FILL_NULL THEN s
    ELSE PrintfAll(s, PathTexts(points) \o << Text("S", << >>, 3) >>)

\* Draw2pdf::DrawPolyline(points)
DrawPolyline(s, points) ==
    IF s.m_lineStyle.m_pattern = LINE_NULL THEN s
    ELSE PrintfAll(s, PathTexts(points) \o << Text("S", << >>, 3) >>)

\* Draw2pdf::DrawLine(pt1, pt2)
DrawLine(s, pt1, pt2) == DrawPolyline(s, << pt1, pt2 >>)

\* A faulty painting step that strokes whenever the line is solid: C15 tells
\* it apart.
PaintPolygonStrokingFirst(s) ==
    IF s.m_lineStyle.m_pattern = LINE_SOLID
    THEN Printf(s, Text("S", << >>, 3))
    ELSE IF s.m_fillStyle.m_pattern = FILL_SOLID
    THEN Printf(s, Text("f*", << >>, 4))
    ELSE s

\* The painting operator closing DrawPolygon.
PaintPolygon(s) ==
    IF s.m_lineStyle.m_pattern = LINE_SOLID /\ s.m_fillStyle.m_pattern = FILL_SOLID
    THEN Printf(s, Text("B*", << >>, 4))
    ELSE IF s.m_fillStyle.m_pattern = FILL_SOLID
    THEN Printf(s, Text("f*", << >>, 4))
    ELSE IF s.m_lineStyle.m_pattern = LINE_SOLID
    THEN Printf(s, Text("S", << >>, 3))
    ELSE s

\* Draw2pdf::DrawPolygon(points)
DrawPolygon(s, points) ==
    IF s.m_lineStyle.m_pattern = LINE_NULL /\ s.m_fillStyle.m_pattern = FILL_NULL
    THEN s
    ELSE PaintPolygon(PrintfAll(s, PathTexts(points) \o << Text("h", << >>, 3) >>))

\* A faulty DrawRectangle that walks the corners row by row, which crosses
\* the outline: C33 tells it apart.
DrawRectangleRowByRow(s, box) ==
    DrawPolygon(s, << PDFPoint(box.m_min.x, box.m_min.y),
                      PDFPoint(box.m_max.x, box.m_min.y),
                      PDFPoint(box.m_min.x, box.m_max.y),
                      PDFPoint(box.m_max.x, box.m_max.y) >>)

\* Draw2pdf::DrawRectangle(box)
DrawRectangle(s, box) ==
    DrawPolygon(s, << PDFPoint(box.m_min.x, box.m_min.y),
                      PDFPoint(box.m_max.x, box.m_min.y),
                      PDFPoint(box.m_max.x, box.m_max.y),
                      PDFPoint(box.m_min.x, box.m_max.y) >>)

\* Draw2pdf::DrawTextString(point, text): the text is a sequence of
\* characters; WideToNarrow keeps their number.
DrawTextString(s, point, text) ==
    PrintfAll(s, <<
       Text("q", << >>, 3),
       Text("BT", << >>, 4),
       Text("Tf", << s.m_textStyle.m_height >>, LfLen(s.m_textStyle.m_height) + 9),
       Text("rg", << s.m_textStyle.m_color.m_red, s.m_textStyle.m_color.m_green,
                     s.m_textStyle.m_color.m_blue >>,
            LfSum(<< s.m_textStyle.m_color.m_red, s.m_textStyle.m_color.m_green,
                     s.m_textStyle.m_color.m_blue >>) + 7),
       Text("Td", << point.x, point.y >>, LfSum(<< point.x, point.y >>) + 6),
       Text("Tj", text, Len(text) + 7),
       Text("ET", << >>, 4),
       Text("Q", << >>, 3) >>)

\* A faulty DrawImage that numbers the image without advancing the counter:
\* C39 tells it apart.
DrawImageKeepingCounter(s, image, destX, destY, destWidth, destHeight) ==
    PrintfAll([s EXCEPT !.m_images = Append(@, [image EXCEPT !.m_objNum = s.m_objNumber])], <<
       Text("q", << >>, 3),
       Text("cm", << destWidth, 0, 0, destHeight, destX, destY >>,
            LfSum(<< destWidth, 0, 0, destHeight, destX, destY >>) + 10),
       Text("Do", << Len(s.m_images) >>, ZuLen(Len(s.m_images)) + 8),
       Text("Q", << >>, 3) >>)

\* Draw2pdf::DrawImage(image, destX, destY, destWidth, destHeight):
\* m_images.push_back(image); m_images.back().m_objNum = m_objNumber++; the
\* image is named by its index, m_images.size() - 1.
DrawImage(s, image, destX, destY, destWidth, destHeight) ==
    PrintfAll([s EXCEPT !.m_images = Append(@, [image EXCEPT !.m_objNum = s.m_objNumber]),
                        !.m_objNumber = @ + 1], <<
       Text("q", << >>, 3),
       Text("cm", << destWidth, 0, 0, destHeight, destX, destY >>,
            LfSum(<< destWidth, 0, 0, destHeight, destX, destY >>) + 10),
       Text("Do", << Len(s.m_images) >>, ZuLen(Len(s.m_images)) + 8),
       Text("Q", << >>, 3) >>)

\* ------------------------------------------------------------ the caller
\* What the calling program passes in.
PageMinimum == PDFPoint(0, 0)
PageMaximum == PDFPoint(612, 792)
LineStyles == { PDFLineStyle(LINE_SOLID, PDFColor(1, 0, 0), 2) }
FillStyles == { PDFFillStyle(FILL_NULL, DefaultColor) }
TextStyles == { PDFTextStyle(30, PDFColor(0, 1, 0)) }
LinePoints == { << PDFPoint(0, 0), PDFPoint(50, 50) >> }
\* A 2 x 1 gray image whose scanline has one byte of padding.
Images == { PDFImage(2, 1, 8, 3, << 64, 0, 255 >>) }

\* The outcomes outside the program's control during one call: compress()
\* on the content stream (deflate[0]) and on the k-th pending image
\* (deflate[k]), and the order std::sort gives equal keys (tie).  Only the
\* outcomes the call can meet are enumerated.
Plans(s, sorts) ==
    { z \in [deflate : [0 .. Len(s.m_images) -> BOOLEAN], tie : BOOLEAN] :
        /\ (~sorts => ~z.tie)
        /\ (~s.m_compressContent => z.deflate[0])
        /\ (~s.m_compressImages => \A k \in 1 .. Len(s.m_images) : z.deflate[k]) }

VARIABLES
    d,        \* the Draw2pdf instance and the files it has written
    life,     \* "alive", "destroyed" (destructor has run), "aborted" (runtime stopped the program)
    thrown,   \* the exception the last call threw, or NoException
    call,     \* history: the last public call and the object numbers it handed out
    calls,    \* history: how many public calls were made
    allocs,   \* history: the object numbers handed out since m_objNumber was last set to 1
    session,  \* history: the pages begun and the NextPage calls made since the last successful Open,
              \* and what was drawn on the current page
    done,     \* history: the last document finalized
    fresh,    \* history: a newly constructed instance given the calls made since the last finalization
    names,    \* the file names the calling program passes to Open
    palette,  \* the line and fill styles the calling program passes to SetLineStyle, SetFillStyle
    arg,      \* history: the point list or the text the last drawing call was given
    a85,      \* one use of an Ascii85Encoder: the data given and the bytes returned
    repack    \* one run of the repacking loop of DoWriteImage: the image and rawData

vars == << d, life, thrown, call, calls, allocs, session, done, fresh, names,
           palette, arg, a85, repack >>

\* The variables of the Draw2pdf instance, its caller and their history.
docVars == << d, life, thrown, call, calls, allocs, session, done, fresh, names,
              palette, arg >>

\* A newly constructed instance put in the place of s: it finds the same
\* files on disk.
FreshLike(s) == [NewDraw2pdf EXCEPT !.disk = s.disk, !.nullDeref = s.nullDeref]

\* The object numbers a call handed out, read from where the call stored them.
PageAllocs(s) ==
    << s.m_pageObjectNumbers[Len(s.m_pageObjectNumbers)],
       s.m_contentsObjNumber, s.m_xobjectObjNumber >>
OpenAllocs(s) == << s.m_catalogObjNumber, s.m_pagesObjNumber >> \o PageAllocs(s)
ImageAllocs(s) == << s.m_images[Len(s.m_images)].m_objNum >>

\* No document finalized yet.
NoDocument ==
    [file |-> NULL, intact |-> FALSE, crossRefs |-> << >>, allocs |-> << >>,
     pages |-> << >>, nextPages |-> 0, switched |-> FALSE, by |-> "Draw2pdf"]

\* The page numbers a call adds to the session.
PagesGot(op, got) ==
    IF op = "Open" /\ got # << >> THEN << got[3] >>
    ELSE IF op = "NextPage" /\ got # << >> THEN << got[1] >>
    ELSE << >>

\* The calls that append to the content accumulator.
Drawing ==
    {"SetLineStyle", "SetFillStyle", "DrawLine", "DrawPolyline", "DrawPolygon",
     "DrawRectangle", "DrawTextString", "DrawImage"}

\* TRUE when the call op finds a document open and ends its current page.
EndsPage(op) == d.m_file # NULL /\ op \in {"Open", "Close", "~Draw2pdf", "NextPage"}

\* Whether, after the call op, the accumulator or the image list holds
\* something drawn while no document was open.
Stray(op) ==
    IF d.m_file = NULL /\ op \in Drawing THEN TRUE
    ELSE IF EndsPage(op) THEN FALSE
    ELSE session.stray

\* The bookkeeping shared by all calls: op names the call, after is the
\* instance the call leaves, got the numbers it handed out, z the outcomes it
\* met.  A call finalizes when it finds a document open and closes it; the
\* cross-reference list it emitted is read from the instance Finalize leaves,
\* switched tells whether a compression switch was on at that time and by
\* names the call.
\* The destructor is not counted against MaxCalls: it can always run.
Record(op, after, got, z) ==
    /\ (op = "~Draw2pdf" \/ calls < MaxCalls)
    /\ calls' = IF calls < MaxCalls THEN calls + 1 ELSE calls
    /\ d' = after
    /\ call' = [op |-> op, got |-> got,
                finalized |-> d.m_file # NULL /\ op \in {"Open", "Close", "~Draw2pdf"},
                wasOpen |-> d.m_file # NULL,
                deflate |-> IF EndsPage(op) THEN z.deflate ELSE << >>]
    /\ allocs' = (IF d.m_file # NULL /\ op \in {"Open", "Close", "~Draw2pdf"}
                  THEN << >> ELSE allocs) \o got
    /\ session' = IF op = "Open" /\ after.m_file # NULL
                  THEN [pages |-> PagesGot(op, got), nextPages |-> 0,
                        images |-> << >>, drawn |-> << >>, stray |-> Stray(op)]
                  ELSE IF d.m_file # NULL /\ op \in {"Open", "Close", "~Draw2pdf"}
                  THEN [pages |-> << >>, nextPages |-> 0,
                        images |-> << >>, drawn |-> << >>, stray |-> Stray(op)]
                  ELSE [pages |-> session.pages \o PagesGot(op, got),
                        nextPages |-> session.nextPages
                                      + (IF op = "NextPage" /\ d.m_file # NULL THEN 1 ELSE 0),
                        images |-> IF EndsPage(op) THEN << >>
                                   ELSE IF d.m_file # NULL /\ op = "DrawImage"
                                   THEN session.images \o got
                                   ELSE session.images,
                        drawn |-> IF EndsPage(op) THEN << >>
                                  ELSE IF d.m_file # NULL /\ op \in Drawing
                                  THEN Append(session.drawn, op)
                                  ELSE session.drawn,
                        stray |-> Stray(op)]
    /\ done' = IF d.m_file # NULL /\ op \in {"Open", "Close", "~Draw2pdf"}
               THEN [file |-> d.m_file,
                     intact |-> after.m_file # d.m_file,
                     crossRefs |-> Finalize(d, z).m_crossRefs,
                     allocs |-> allocs,
                     pages |-> session.pages,
                     nextPages |-> session.nextPages,
                     switched |-> d.m_compressImages \/ d.m_compressContent,
                     by |-> op]
               ELSE [done EXCEPT !.intact = @ /\ after.m_file # done.file]
    /\ UNCHANGED << names, palette, a85, repack >>

\* No encoder in use, no image being repacked.
NoEncoding == [data |-> << >>, encodedData |-> << >>, returned |-> FALSE]
NoRepacking == [image |-> PDFImage(0, 0, 0, 0, << >>), rawData |-> << >>, packed |-> FALSE]

\* The instance as constructed, before any call.
Constructed ==
    /\ d = NewDraw2pdf
    /\ life = "alive"
    /\ thrown = NoException
    /\ call = [op |-> "Draw2pdf", got |-> << >>, finalized |-> FALSE, wasOpen |-> FALSE,
               deflate |-> << >>]
    /\ calls = 0
    /\ allocs = << >>
    /\ session = [pages |-> << >>, nextPages |-> 0, images |-> << >>, drawn |-> << >>,
                  stray |-> FALSE]
    /\ done = NoDocument
    /\ fresh = NewDraw2pdf
    /\ names = {"A"}
    /\ arg = << >>

Init ==
    /\ Constructed
    /\ palette = [line |-> LineStyles, fill |-> FillStyles]
    /\ a85 = NoEncoding
    /\ repack = NoRepacking

OpenCall ==
    /\ life = "alive"
    /\ \E filename \in names, fopenOk \in BOOLEAN, z \in Plans(d, d.m_file # NULL) :
          /\ Record("Open",
                    Open(d, filename, PageMinimum, PageMaximum, fopenOk, z),
                    IF fopenOk
                    THEN OpenAllocs(Open(d, filename, PageMinimum, PageMaximum, fopenOk, z))
                    ELSE << >>,
                    z)
          /\ thrown' = OpenThrows(filename, fopenOk)
          /\ fresh' = Open(IF d.m_file # NULL THEN FreshLike(Close(d, z)) ELSE fresh,
                           filename, PageMinimum, PageMaximum, fopenOk, z)
    /\ arg' = << >>
    /\ UNCHANGED life

CloseCall ==
    /\ life = "alive"
    /\ \E z \in Plans(d, d.m_file # NULL) :
          /\ Record("Close", Close(d, z), << >>, z)
          /\ fresh' = IF d.m_file # NULL THEN FreshLike(Close(d, z)) ELSE Close(fresh, z)
    /\ thrown' = NoException
    /\ arg' = << >>
    /\ UNCHANGED life

DestructorCall ==
    /\ life = "alive"
    /\ \E z \in Plans(d, d.m_file # NULL) :
          /\ Record("~Draw2pdf", Destructor(d, z), << >>, z)
          /\ fresh' = IF d.m_file # NULL THEN FreshLike(Destructor(d, z))
                      ELSE Destructor(fresh, z)
    /\ life' = "destroyed"
    /\ thrown' = NoException
    /\ arg' = << >>

\* NextPage with no document open passes the null m_file to fprintf: the
\* runtime either stops the program there or fails every call on the null
\* stream and lets NextPage run on.
NextPageCall ==
    /\ life = "alive"
    /\ \E z \in Plans(d, FALSE), goesOn \in BOOLEAN :
          IF d.m_file = NULL /\ ~goesOn
          THEN /\ Record("NextPage", [d EXCEPT !.nullDeref = TRUE], << >>, z)
               /\ fresh' = [fresh EXCEPT !.nullDeref = TRUE]
               /\ life' = "aborted"
          ELSE /\ (d.m_file # NULL => goesOn)
               /\ Record("NextPage", NextPage(d, z), PageAllocs(NextPage(d, z)), z)
               /\ fresh' = NextPage(fresh, z)
               /\ UNCHANGED life
    /\ thrown' = NoException
    /\ arg' = << >>

\* A call that neither opens nor closes a document nor hands out a number;
\* points is the point list it was given, if it takes one.
PlainWith(op, points, after, freshAfter) ==
    /\ life = "alive"
    /\ Record(op, after, << >>, [deflate |-> << >>, tie |-> FALSE])
    /\ fresh' = freshAfter
    /\ thrown' = NoException
    /\ arg' = points
    /\ UNCHANGED life

Plain(op, after, freshAfter) == PlainWith(op, << >>, after, freshAfter)

EnableImageCompressionCall ==
    /\ Plain("EnableImageCompression",
             EnableImageCompression(d, ~d.m_compressImages),
             EnableImageCompression(fresh, ~d.m_compressImages))

EnableContentCompressionCall ==
    /\ Plain("EnableContentCompression",
             EnableContentCompression(d, ~d.m_compressContent),
             EnableContentCompression(fresh, ~d.m_compressContent))

SetLineStyleCall ==
    /\ \E style \in palette.line :
          Plain("SetLineStyle", SetLineStyle(d, style), SetLineStyle(fresh, style))

SetFillStyleCall ==
    /\ \E style \in palette.fill :
          Plain("SetFillStyle", SetFillStyle(d, style), SetFillStyle(fresh, style))

SetTextStyleCall ==
    /\ \E style \in TextStyles :
          Plain("SetTextStyle", SetTextStyle(d, style), SetTextStyle(fresh, style))

DrawLineCall ==
    /\ \E pts \in LinePoints :
          PlainWith("DrawLine", pts, DrawLine(d, pts[1], pts[2]),
                    DrawLine(fresh, pts[1], pts[2]))

DrawImageCall ==
    /\ life = "alive"
    /\ \E image \in Images :
          /\ Record("DrawImage", DrawImage(d, image, 100, 150, 40, 60),
                    ImageAllocs(DrawImage(d, image, 100, 150, 40, 60)),
                    [deflate |-> << >>, tie |-> FALSE])
          /\ fresh' = DrawImage(fresh, image, 100, 150, 40, 60)
    /\ thrown' = NoException
    /\ arg' = << >>
    /\ UNCHANGED life

Next ==
    \/ OpenCall
    \/ CloseCall
    \/ DestructorCall
    \/ NextPageCall
    \/ EnableImageCompressionCall
    \/ EnableContentCompressionCall
    \/ SetLineStyleCall
    \/ SetFillStyleCall
    \/ SetTextStyleCall
    \/ DrawLineCall
    \/ DrawImageCall

Spec == Init /\ [][Next]_vars

\* Weak fairness of the destructor: the instance is an object with a lifetime,
\* and leaving its scope (normally or by the exception Open throws) runs
\* ~Draw2pdf.  DestructorCall is enabled exactly while life = "alive", so
\* WF_vars(DestructorCall) is the formula below, which spares evaluating
\* ENABLED on the whole of Close.
DestructorFairness == []<>(life # "alive") \/ []<><<DestructorCall>>_vars

\* A run in which the destructor is not put off forever.
LiveSpec == Spec /\ DestructorFairness

\* ------------------------------------------------- the drawing calls
\* The styles and point lists of a program that draws paths: both patterns of
\* line and fill, and lists of no, one and three points.
DrawLineStyles == LineStyles \cup { PDFLineStyle(LINE_NULL, PDFColor(1, 0, 0), 2) }
DrawFillStyles == FillStyles \cup { PDFFillStyle(FILL_SOLID, PDFColor(0, 0, 1)) }
PointLists ==
    { << >>,
      << PDFPoint(10, 20) >>,
      << PDFPoint(10, 20), PDFPoint(300, 20), PDFPoint(300, 400) >> }

DrawInit ==
    /\ Constructed
    /\ palette = [line |-> DrawLineStyles, fill |-> DrawFillStyles]
    /\ a85 = NoEncoding
    /\ repack = NoRepacking

DrawPolylineCall ==
    /\ \E points \in PointLists :
          PlainWith("DrawPolyline", points, DrawPolyline(d, points),
                    DrawPolyline(fresh, points))

DrawPolygonCall ==
    /\ \E points \in PointLists :
          PlainWith("DrawPolygon", points, DrawPolygon(d, points),
                    DrawPolygon(fresh, points))

\* The calls of a program that sets styles and draws paths.
DrawNext ==
    \/ SetLineStyleCall
    \/ SetFillStyleCall
    \/ DrawLineCall
    \/ DrawPolylineCall
    \/ DrawPolygonCall

DrawSpec == DrawInit /\ [][DrawNext]_vars

\* ------------------------------------------ a program with the defaults
\* The calls of a program that never calls EnableImageCompression or
\* EnableContentCompression (as pdftest.cpp, where both calls are commented
\* out).
DefaultNext ==
    \/ OpenCall
    \/ CloseCall
    \/ DestructorCall
    \/ NextPageCall
    \/ SetLineStyleCall
    \/ SetFillStyleCall
    \/ SetTextStyleCall
    \/ DrawLineCall
    \/ DrawImageCall

DefaultSpec == Init /\ [][DefaultNext]_vars

\* ------------------------------------------- a program that draws boxes
\* The box of the first rectangle pdftest.cpp draws.
Boxes == { PDFBox(PDFPoint(175, 200), PDFPoint(475, 300)) }

DrawRectangleCall ==
    /\ \E box \in Boxes :
          PlainWith("DrawRectangle", << box.m_min, box.m_max >>, DrawRectangle(d, box),
                    DrawRectangle(fresh, box))

\* The calls of a program that sets styles and draws lines and rectangles.
ShapeNext ==
    \/ SetLineStyleCall
    \/ SetFillStyleCall
    \/ DrawLineCall
    \/ DrawRectangleCall

ShapeSpec == DrawInit /\ [][ShapeNext]_vars

\* ------------------------------------------------- a program that writes
\* The texts of a program that draws text: the one pdftest.cpp draws
\* ("Testing 123."), the longest text whose "(%s) Tj\r\n" rendering and its
\* NUL fit the largest scratch buffer of Printf, and the shortest that does
\* not fit.
TextStrings ==
    { << 84, 101, 115, 116, 105, 110, 103, 32, 49, 50, 51, 46 >>,
      [i \in 1 .. LargestBuffer - 8 |-> 120],
      [i \in 1 .. LargestBuffer - 7 |-> 120] }

DrawTextStringCall ==
    /\ \E text \in TextStrings :
          PlainWith("DrawTextString", text, DrawTextString(d, PDFPoint(100, 290), text),
                    DrawTextString(fresh, PDFPoint(100, 290), text))

\* The calls of a program that sets the text style and draws text.
TextNext ==
    \/ SetTextStyleCall
    \/ DrawTextStringCall

TextSpec == Init /\ [][TextNext]_vars

\* --------------------------------- a program that writes and places images
\* The calls of a program that draws text and images.
MarkNext ==
    \/ SetTextStyleCall
    \/ DrawTextStringCall
    \/ DrawImageCall

MarkSpec == Init /\ [][MarkNext]_vars

\* A program that writes one document after another into files of different
\* names with one instance.
FilesInit ==
    /\ d = NewDraw2pdf
    /\ life = "alive"
    /\ thrown = NoException
    /\ call = [op |-> "Draw2pdf", got |-> << >>, finalized |-> FALSE, wasOpen |-> FALSE,
               deflate |-> << >>]
    /\ calls = 0
    /\ allocs = << >>
    /\ session = [pages |-> << >>, nextPages |-> 0, images |-> << >>, drawn |-> << >>,
                  stray |-> FALSE]
    /\ done = NoDocument
    /\ fresh = NewDraw2pdf
    /\ names = Filenames
    /\ arg = << >>
    /\ palette = [line |-> LineStyles, fill |-> FillStyles]
    /\ a85 = NoEncoding
    /\ repack = NoRepacking

FilesNext == OpenCall \/ CloseCall \/ NextPageCall \/ DrawLineCall \/ DrawImageCall

FilesSpec == FilesInit /\ [][FilesNext]_vars

\* A program that has opened a document and goes on with style and draw
\* calls: the instance as a successful Open of file "A" on the constructed
\* instance leaves it, with the history of that call.
Opened ==
    Open(NewDraw2pdf, "A", PageMinimum, PageMaximum, TRUE,
         [deflate |-> [k \in 0 .. 0 |-> TRUE], tie |-> FALSE])

FrameInit ==
    /\ d = Opened
    /\ life = "alive"
    /\ thrown = NoException
    /\ call = [op |-> "Open", got |-> OpenAllocs(Opened), finalized |-> FALSE,
               wasOpen |-> FALSE, deflate |-> << >>]
    /\ calls = 1
    /\ allocs = OpenAllocs(Opened)
    /\ session = [pages |-> PagesGot("Open", OpenAllocs(Opened)), nextPages |-> 0,
                  images |-> << >>, drawn |-> << >>, stray |-> FALSE]
    /\ done = NoDocument
    /\ fresh = Opened
    /\ names = {"A"}
    /\ arg = << >>
    /\ palette = [line |-> LineStyles, fill |-> FillStyles]
    /\ a85 = NoEncoding
    /\ repack = NoRepacking

FrameNext ==
    \/ SetLineStyleCall
    \/ SetFillStyleCall
    \/ SetTextStyleCall
    \/ DrawLineCall
    \/ DrawPolylineCall
    \/ DrawPolygonCall
    \/ DrawRectangleCall
    \/ DrawTextStringCall
    \/ DrawImageCall

FrameSpec == FrameInit /\ [][FrameNext]_vars

\* ------------------------------------------------ the encoder on its own
\* The data a caller hands to EncodeToAscii85: a run of equal bytes followed
\* by a few free bytes.
RunBytes == {0, 255}
TailBytes == {0, 1, 255}
Run(c, n) == [i \in 1 .. n |-> c]
Tails == UNION { [1 .. k -> TailBytes] : k \in 0 .. MaxTail }
EncoderInputs ==
    { Run(c, n) \o tail : c \in RunBytes, n \in 0 .. MaxRun, tail \in Tails }

\* An Ascii85Encoder is constructed and about to be given data.
EncoderInit ==
    /\ Constructed
    /\ palette = [line |-> LineStyles, fill |-> FillStyles]
    /\ repack = NoRepacking
    /\ a85 \in { [data |-> data, encodedData |-> << >>, returned |-> FALSE] :
                    data \in EncoderInputs }

\* encodedData = a85.EncodeToAscii85(data, numBytes)
EncodeToAscii85Call ==
    /\ ~a85.returned
    /\ a85' = [a85 EXCEPT !.encodedData = EncodeToAscii85(a85.data), !.returned = TRUE]
    /\ UNCHANGED << docVars, repack >>

EncoderNext == EncodeToAscii85Call

EncoderSpec == EncoderInit /\ [][EncoderNext]_vars

\* ------------------------------------------ the repacking loop on its own
\* Pixel data of n bytes: no byte is zero and no two bytes are equal, so that
\* a byte of rawData tells where it came from.
Pixels(n, seed) == [i \in 1 .. n |-> ((i * 7 + seed) % 255) + 1]

\* The images handed to DoWriteImage: every width and height up to MaxDim
\* (zero included), 8, 24 and 32 bits a pixel, scanlines with and without
\* padding, m_pixels of numY * stride bytes as DrawImage(pixels, ...) makes it.
RepackImages ==
    { PDFImage(w, h, bpp, (w * bpp) \div 8 + pad,
               Pixels(h * ((w * bpp) \div 8 + pad), seed)) :
        w \in 0 .. MaxDim, h \in 0 .. MaxDim, bpp \in {8, 24, 32},
        pad \in 0 .. MaxPad, seed \in {0, 100} }

\* DoWriteImage has picked the image and is about to repack it.
RepackInit ==
    /\ Constructed
    /\ palette = [line |-> LineStyles, fill |-> FillStyles]
    /\ a85 = NoEncoding
    /\ repack \in { [image |-> image, rawData |-> << >>, packed |-> FALSE] :
                       image \in RepackImages }

\* The repacking loop of DoWriteImage has run.
RepackCall ==
    /\ ~repack.packed
    /\ repack' = [repack EXCEPT !.rawData = RawData(repack.image), !.packed = TRUE]
    /\ UNCHANGED << docVars, a85 >>

RepackNext == RepackCall

RepackSpec == RepackInit /\ [][RepackNext]_vars

\* ------------------------------------------------- reading a written file
\* The values a sequence holds.
Range(seq) == { seq[i] : i \in 1 .. Len(seq) }

\* The writes of kind t in a file, in file order.
LinesOf(lines, t) == SelectSeq(lines, LAMBDA l : l.t = t)

\* Number of bytes of lines[lo .. hi].
RECURSIVE SumLen(_, _, _)
SumLen(lines, lo, hi) ==
    IF lo > hi THEN 0
    ELSE IF lo = hi THEN lines[lo].len
    ELSE SumLen(lines, lo, (lo + hi) \div 2) + SumLen(lines, (lo + hi) \div 2 + 1, hi)

\* The file position at which the i-th write of a file begins.
Offset(lines, i) == SumLen(lines, 1, i - 1)

\* The writes of the last document finalized, while its file is as Close left it.
DoneLines == d.disk[done.file].lines

\* The largest object number handed out for the last document finalized.
MaxAllocated == CHOOSE m \in Range(done.allocs) : \A n \in Range(done.allocs) : n <= m

\* ------------------------------------------------------------------ C1
\* C1: whatever calls were made, the cross-reference list a finalizing Close
\* emits holds every object number handed out for the document exactly once,
\* and after the sort its object numbers are strictly ascending.
C1_CrossRefsCoverAllocations ==
    done.file # NULL =>
       /\ \A n \in Range(done.allocs) :
             Cardinality({ k \in 1 .. Len(done.crossRefs) :
                             done.crossRefs[k].m_objnum = n }) = 1
       /\ \A k \in 1 .. Len(done.crossRefs) - 1 :
             done.crossRefs[k].m_objnum < done.crossRefs[k + 1].m_objnum

\* C1 in the runs where NextPage is never called with no document open: there
\* the list is exactly the numbers handed out, 1 .. N in order.
C1_WhenNextPageHadADocument ==
    (done.file # NULL /\ ~d.nullDeref) =>
       /\ Len(done.crossRefs) = Len(done.allocs)
       /\ \A k \in 1 .. Len(done.crossRefs) : done.crossRefs[k].m_objnum = k
       /\ Range(done.allocs) = 1 .. Len(done.allocs)

\* ------------------------------------------------------------------ C2
\* C2: in every finalized document the entry count of the xref header line
\* and the /Size of the trailer are both (number of cross-reference entries)
\* + 1, and that is (largest object number handed out) + 1.
C2_DeclaredSizeIsMaxPlusOne ==
    done.intact =>
       /\ Len(LinesOf(DoneLines, "0 count")) = 1
       /\ Len(LinesOf(DoneLines, "/Size")) = 1
       /\ LinesOf(DoneLines, "0 count")[1].n = Len(done.crossRefs) + 1
       /\ LinesOf(DoneLines, "/Size")[1].n = Len(done.crossRefs) + 1
       /\ LinesOf(DoneLines, "0 count")[1].n = MaxAllocated + 1
       /\ Len(LinesOf(DoneLines, "entry")) + 1 = LinesOf(DoneLines, "0 count")[1].n

\* A finalized two-page document with an image: nine numbers handed out.
C2_Witness ==
    /\ done.intact
    /\ Len(done.allocs) = 9
    /\ LinesOf(DoneLines, "/Size")[1].n = 10
    /\ LinesOf(DoneLines, "0 count")[1].n = 10

\* ------------------------------------------------------------------ C3
\* C3: in a finalized document every object's cross-reference entry holds the
\* file position at which the object's "N 0 obj" line begins, every entry
\* belongs to an object of the file, and the k-th in-use line of the xref
\* table carries the offset of object number k.
C3_OffsetsPointAtObjects ==
    done.intact =>
       /\ \A i \in 1 .. Len(DoneLines) :
             DoneLines[i].t = "obj" =>
                PDFCrossRef(DoneLines[i].n, Offset(DoneLines, i)) \in Range(done.crossRefs)
       /\ \A k \in 1 .. Len(done.crossRefs) :
             \E i \in 1 .. Len(DoneLines) :
                /\ DoneLines[i].t = "obj"
                /\ DoneLines[i].n = done.crossRefs[k].m_objnum
                /\ Offset(DoneLines, i) = done.crossRefs[k].m_offset
       /\ \A k \in 1 .. Len(LinesOf(DoneLines, "entry")) :
             \E i \in 1 .. Len(DoneLines) :
                /\ DoneLines[i].t = "obj"
                /\ DoneLines[i].n = k
                /\ Offset(DoneLines, i) = LinesOf(DoneLines, "entry")[k].n

\* C3 in the runs where NextPage is never called with no document open.
C3_WhenNextPageHadADocument == ~d.nullDeref => C3_OffsetsPointAtObjects

\* ------------------------------------------------------------------ C4
\* C4: the object numbers handed out since the counter was last set to 1 are
\* 1, 2, ..., N in the order of allocation (distinct, increasing, none skipped
\* or reused), and the counter stands at N + 1.
C4_NumbersAreContiguous ==
    /\ allocs = [k \in 1 .. Len(allocs) |-> k]
    /\ d.m_objNumber = Len(allocs) + 1

\* Catalog, Pages, two pages with their content and XObject numbers and an
\* image have been numbered: every kind of allocation has occurred.
C4_Witness ==
    /\ d.m_file # NULL
    /\ Len(allocs) = 9
    /\ Len(d.m_pageObjectNumbers) = 2
    /\ \E k \in 1 .. Len(d.m_images) : d.m_images[k].m_objNum \in Range(allocs)

\* ------------------------------------------------------------------ C5
\* C5: in every document, whatever was called on the instance before Open
\* (NextPage with no document open left aside), the catalog is object 1 and
\* the Pages object is object 2, and the object the trailer's "/Root 1 0 R"
\* names is the catalog.
C5_CatalogIsObjectOne ==
    /\ (d.m_file # NULL /\ ~d.nullDeref) =>
          /\ d.m_catalogObjNumber = 1
          /\ d.m_pagesObjNumber = 2
    /\ (done.intact /\ ~d.nullDeref) =>
          \E i \in 1 .. Len(DoneLines) - 2 :
             /\ DoneLines[i].t = "obj"
             /\ DoneLines[i].n = LinesOf(DoneLines, "/Size")[1].root
             /\ DoneLines[i + 2].t = "/Type /Catalog"

\* ------------------------------------------------------------------ C6
\* The object numbers the Kids array of a file lists, in file order.
Kids(lines) == [k \in 1 .. Len(LinesOf(lines, "kid")) |-> LinesOf(lines, "kid")[k].n]

\* C6: the Kids array of a finalized document lists exactly the page object
\* numbers of the session (the pages begun by its Open and its NextPage
\* calls) in creation order, and /Count is the number of those pages, one
\* more than the NextPage calls of the session.
C6_KidsAreTheSessionPages ==
    done.intact =>
       /\ Kids(DoneLines) = done.pages
       /\ Len(LinesOf(DoneLines, "/Count")) = 1
       /\ LinesOf(DoneLines, "/Count")[1].n = Len(done.pages)
       /\ LinesOf(DoneLines, "/Count")[1].n = 1 + done.nextPages

\* C6 in the runs where NextPage is never called with no document open.
C6_WhenNextPageHadADocument == ~d.nullDeref => C6_KidsAreTheSessionPages

\* ------------------------------------------------------------------ C7
\* The members Close is to bring back to their initial values.
InitialMembers(s) ==
    /\ s.m_objNumber = NewDraw2pdf.m_objNumber
    /\ s.m_catalogObjNumber = NewDraw2pdf.m_catalogObjNumber
    /\ s.m_pagesObjNumber = NewDraw2pdf.m_pagesObjNumber
    /\ s.m_crossRefs = NewDraw2pdf.m_crossRefs
    /\ s.m_pageObjectNumbers = NewDraw2pdf.m_pageObjectNumbers
    /\ s.m_contentStream = NewDraw2pdf.m_contentStream
    /\ s.m_images = NewDraw2pdf.m_images
    /\ s.m_lineStyle = NewDraw2pdf.m_lineStyle
    /\ s.m_fillStyle = NewDraw2pdf.m_fillStyle
    /\ s.m_textStyle = NewDraw2pdf.m_textStyle

\* Two instances have handed out the same numbers and emitted the same bytes.
SameRun(a, b) ==
    /\ a.m_file = b.m_file
    /\ a.m_objNumber = b.m_objNumber
    /\ a.m_catalogObjNumber = b.m_catalogObjNumber
    /\ a.m_pagesObjNumber = b.m_pagesObjNumber
    /\ a.m_crossRefs = b.m_crossRefs
    /\ a.m_pageObjectNumbers = b.m_pageObjectNumbers
    /\ a.m_contentStream = b.m_contentStream
    /\ a.m_images = b.m_images
    /\ a.disk = b.disk

\* C7 as amended: a Close that finalizes a document brings the listed members
\* back to their initial values; the compression switches are kept, so the
\* reused instance hands out the same numbers and emits the same bytes as a
\* newly constructed instance given the same calls when both switches were off
\* at that finalization (and NextPage is not called with no document open).
C7_ReusedLikeFreshWithSwitchesOff ==
    /\ (call.finalized /\ call.op = "Close") => InitialMembers(d)
    /\ (done.file # NULL /\ ~done.switched /\ ~d.nullDeref) => SameRun(d, fresh)

\* The reused instance has begun a second document and drawn an image on it.
C7_Witness ==
    /\ done.file # NULL
    /\ ~done.switched
    /\ ~d.nullDeref
    /\ d.m_file # NULL
    /\ done.by = "Close"
    /\ call.op = "DrawImage"
    /\ SameRun(d, fresh)

\* C7 as stated: after a finalization the reused instance matches a newly
\* constructed instance given the same calls (NextPage with no document open
\* left aside).
C7_ReusedLikeFresh ==
    (done.file # NULL /\ ~d.nullDeref) => SameRun(d, fresh)

\* ------------------------------------------------------------------ C8
\* C8: right after a successful Open, whatever calls preceded it (NextPage
\* with no document open left aside), the content accumulator and the pending
\* images are empty and the cross-reference list holds the catalog entry and
\* the first page's entry only.
C8_OpenResetsTheDocument ==
    (call.op = "Open" /\ d.m_file # NULL /\ ~d.nullDeref) =>
       /\ d.m_contentStream = << >>
       /\ d.m_images = << >>
       /\ [k \in 1 .. Len(d.m_crossRefs) |-> d.m_crossRefs[k].m_objnum]
             = << d.m_catalogObjNumber, d.m_pageObjectNumbers[1] >>

\* ------------------------------------------------------------------ C9
\* A file holds one complete document: one Pages object, as many content
\* stream objects as pages, one xref table, one trailer, and at its very end
\* startxref, the offset and the one EOF marker.
IsFinalized(lines) ==
    /\ Len(lines) >= 3
    /\ lines[Len(lines) - 2].t = "startxref"
    /\ lines[Len(lines) - 1].t = "xref offset"
    /\ lines[Len(lines)].t = "%%EOF"
    /\ Len(LinesOf(lines, "%%EOF")) = 1
    /\ Len(LinesOf(lines, "/Type /Pages /Kids [")) = 1
    /\ Len(LinesOf(lines, "xref")) = 1
    /\ Len(LinesOf(lines, "trailer")) = 1
    /\ Len(LinesOf(lines, "content")) + Len(LinesOf(lines, "deflated content"))
          = Len(LinesOf(lines, "/Type /Page"))

\* C9: a document that is open is eventually closed; whenever a document
\* stops being open its file holds the complete finalization, written once;
\* the destructor of an instance with a document open does what Close does;
\* Close or the destructor on an instance with no document open changes
\* nothing; and a file that holds an EOF marker holds exactly one complete
\* finalization, is no longer open, and ends there.
C9_OpenDocumentsAreFinalizedOnce ==
    /\ (d.m_file # NULL) ~> (d.m_file = NULL)
    /\ [][(d.m_file # NULL /\ d'.m_file = NULL)
             => IsFinalized(d'.disk[d.m_file].lines)]_vars
    /\ [][(call'.op = "~Draw2pdf" /\ d.m_file # NULL)
             => \E z \in Plans(d, TRUE) : d' = Close(d, z)]_vars
    /\ [][(call'.op \in {"Close", "~Draw2pdf"} /\ d.m_file = NULL) => d' = d]_vars
    /\ [](\A f \in Filenames :
             LinesOf(d.disk[f].lines, "%%EOF") # << >>
                => (f # d.m_file /\ IsFinalized(d.disk[f].lines)))

\* The instance was destroyed with a two-page document open, and the file is
\* complete.
C9_Witness ==
    /\ life = "destroyed"
    /\ call.op = "~Draw2pdf"
    /\ call.wasOpen
    /\ d.m_file = NULL
    /\ done.nextPages = 1
    /\ IsFinalized(DoneLines)

\* ------------------------------------------------------------------ C10
\* C10: when Open cannot open the file it throws a PDFException carrying
\* source file, line and message; it has handed out no object number and
\* recorded no cross-reference entry and no page; it has written nothing
\* beyond the finalization of the document that was open before, if any; and
\* it leaves no document open, so that a following Close changes nothing.
C10_FailedOpenLeavesNothingBehind ==
    [][thrown' # NoException =>
          /\ call'.op = "Open"
          /\ thrown'.m_srcFile # ""
          /\ thrown'.m_srcLine > 0
          /\ Len(thrown'.m_errorMessage) = 2
          /\ call'.got = << >>
          /\ d'.m_file = NULL
          /\ \A z \in Plans(d', FALSE) : Close(d', z) = d'
          /\ d.m_file = NULL =>
                /\ d'.disk = d.disk
                /\ d'.m_objNumber = d.m_objNumber
                /\ d'.m_crossRefs = d.m_crossRefs
                /\ d'.m_pageObjectNumbers = d.m_pageObjectNumbers
          /\ d.m_file # NULL =>
                /\ IsFinalized(d'.disk[d.m_file].lines)
                /\ \A f \in Filenames \ {d.m_file} : d'.disk[f] = d.disk[f]
                /\ d'.m_objNumber = 1
                /\ d'.m_crossRefs = << >>
                /\ d'.m_pageObjectNumbers = << >>]_vars

\* Open has failed on an instance that had a document open with an image
\* pending: that document was finalized and nothing else was written.
C10_Witness ==
    /\ thrown # NoException
    /\ call.op = "Open"
    /\ call.wasOpen
    /\ d.m_file = NULL
    /\ d.m_objNumber = 1
    /\ Len(done.allocs) = 6
    /\ IsFinalized(DoneLines)
\* ------------------------------------------------ decoding Ascii85 text
\* bytes * 85 + digit, the value kept as four bytes, most significant first.
MulAdd85(bytes, digit) ==
    LET v4 == bytes[4] * 85 + digit
        v3 == bytes[3] * 85 + (bytes[4] * 85 + digit) \div 256
        v2 == bytes[2] * 85 + v3 \div 256
        v1 == bytes[1] * 85 + v2 \div 256
    IN << v1 % 256, v2 % 256, v3 % 256, v4 % 256 >>

\* The four bytes five base-85 digits stand for, most significant digit first.
RECURSIVE GroupValue(_, _)
GroupValue(bytes, digits) ==
    IF digits = << >> THEN bytes
    ELSE GroupValue(MulAdd85(bytes, Head(digits)), Tail(digits))

\* The bytes of a final short group of k digits: padded with 'u' (84) to five
\* digits, of which the first k - 1 bytes count.
FinalGroup(group) ==
    IF group = << >> THEN << >>
    ELSE SubSeq(GroupValue(ZeroTuple, group \o [i \in 1 .. 5 - Len(group) |-> 84]),
                1, Len(group) - 1)

\* A decoder that has read nothing yet: the bytes decoded, the digits of the
\* group being read, whether '~' was the last character read and whether
\* "~>", the end-of-data marker, was met.
NewDecoder == [bytes |-> << >>, group |-> << >>, tilde |-> FALSE, eod |-> FALSE]

\* A standard Ascii85 decoder reading one more character c: CR and LF are
\* skipped, 'z' between groups is four zero bytes, five digits are four bytes,
\* "~>" ends the data and nothing is read after it.
DecodeChar(st, c) ==
    IF st.eod THEN st
    ELSE IF st.tilde
    THEN IF c = 62
         THEN [st EXCEPT !.bytes = @ \o FinalGroup(st.group), !.group = << >>,
                         !.eod = TRUE]
         ELSE st
    ELSE IF c = 126 THEN [st EXCEPT !.tilde = TRUE]
    ELSE IF c \in {CR, LF} THEN st
    ELSE IF c = 122 /\ st.group = << >> THEN [st EXCEPT !.bytes = @ \o ZeroTuple]
    ELSE IF Len(st.group) = 4
    THEN [st EXCEPT !.bytes = @ \o GroupValue(ZeroTuple, Append(st.group, c - 33)),
                    !.group = << >>]
    ELSE [st EXCEPT !.group = Append(@, c - 33)]

\* The decoder st after reading text[lo .. hi].
RECURSIVE DecodeChars(_, _, _, _)
DecodeChars(st, text, lo, hi) ==
    IF lo > hi \/ st.eod THEN st
    ELSE IF lo = hi THEN DecodeChar(st, text[lo])
    ELSE DecodeChars(DecodeChars(st, text, lo, (lo + hi) \div 2),
                     text, (lo + hi) \div 2 + 1, hi)

\* What the decoder makes of a whole text: the bytes, and whether it met the
\* end-of-data marker.  Text that ends without "~>" gives the bytes of the
\* full groups read, with eod false.
Ascii85Decode(text) ==
    [bytes |-> DecodeChars(NewDecoder, text, 1, Len(text)).bytes,
     eod   |-> DecodeChars(NewDecoder, text, 1, Len(text)).eod]

\* The printable characters of encoded text before its '~'.
Payload(text) ==
    SelectSeq(SubSeq(text, 1, Cardinality({ i \in 1 .. Len(text) :
                                             \A k \in 1 .. i : text[k] # 126 })),
              LAMBDA c : c \notin {CR, LF})

\* The input groups of data: four bytes each, the last one possibly shorter.
Groups(data) ==
    [g \in 1 .. (Len(data) + 3) \div 4 |->
        SubSeq(data, 4 * g - 3, IF 4 * g < Len(data) THEN 4 * g ELSE Len(data))]

\* The characters a group gets when it is encoded on its own.
Alone(group) == Payload(EncodeToAscii85(group))

\* The characters of the groups gs[lo .. hi], each encoded on its own.
RECURSIVE GroupWise(_, _, _)
GroupWise(gs, lo, hi) ==
    IF lo > hi THEN << >>
    ELSE IF lo = hi THEN Alone(gs[lo])
    ELSE GroupWise(gs, lo, (lo + hi) \div 2) \o GroupWise(gs, (lo + hi) \div 2 + 1, hi)

\* ----------------------------------------------------------------- C11
\* C11: for every byte sequence given to EncodeToAscii85, a standard Ascii85
\* decoder reading the returned text reaches the "~>" end-of-data marker and
\* has then decoded exactly the bytes given.
C11_RoundTrip ==
    a85.returned =>
       Ascii85Decode(a85.encodedData) = [bytes |-> a85.data, eod |-> TRUE]

\* C11 for data of at least one byte: the round trip is exact.
C11_RoundTripOfSomeData ==
    (a85.returned /\ a85.data # << >>) => C11_RoundTrip

\* C11 without the end-of-data marker: the bytes decoded from the returned
\* text are in every case the bytes given.
C11_DecodedBytesAreTheData ==
    a85.returned => Ascii85Decode(a85.encodedData).bytes = a85.data

\* ----------------------------------------------------------------- C12
\* C12: no line of the returned text, the one carrying "~>" included, holds
\* more than lineWidth characters: every lineWidth + 1 consecutive bytes of
\* the text hold a CR or an LF.
C12_LinesFitTheWidth ==
    a85.returned =>
       \A i \in 1 .. Len(a85.encodedData) - lineWidth :
          \E k \in i .. i + lineWidth : a85.encodedData[k] \in {CR, LF}

\* What holds instead: no line holds more than lineWidth + 1 characters, and
\* a line that holds "~>" holds at most lineWidth.
C12_LinesFitTheWidthPlusOne ==
    a85.returned =>
       /\ \A i \in 1 .. Len(a85.encodedData) - (lineWidth + 1) :
             \E k \in i .. i + lineWidth + 1 : a85.encodedData[k] \in {CR, LF}
       /\ \A i \in 1 .. Len(a85.encodedData) - lineWidth :
             a85.encodedData[i + lineWidth] = 62 =>
                \E k \in i .. i + lineWidth : a85.encodedData[k] \in {CR, LF}

\* ----------------------------------------------------------------- C13
\* C13: given zero bytes, EncodeToAscii85 returns exactly "~>", CR, LF.
C13_EmptyDataGivesTheTerminator ==
    (a85.returned /\ a85.data = << >>) => a85.encodedData = << 126, 62, CR, LF >>

\* ----------------------------------------------------------------- C14
\* C14: the returned text is the input groups encoded one by one, each as if
\* it were alone (what precedes a group, a 'z' included, does not change its
\* characters); a group is the single character 'z' exactly when it has four
\* bytes, all zero, and no other group holds a 'z'; a final group of k < 4
\* zero bytes is k + 1 characters '!'.
C14_ShortcutOnlyForFullZeroGroups ==
    a85.returned =>
       /\ Payload(a85.encodedData) = GroupWise(Groups(a85.data), 1, Len(Groups(a85.data)))
       /\ \A group \in Range(Groups(a85.data)) :
             /\ (Alone(group) = << 122 >>) <=> (group = ZeroTuple)
             /\ (group # ZeroTuple) => (122 \notin Range(Alone(group)))
             /\ (Len(group) < 4 /\ Range(group) = {0}) =>
                   Alone(group) = [i \in 1 .. Len(group) + 1 |-> 33]

\* Six zero bytes were encoded: 'z' for the full group, "!!!" for the two
\* bytes left over.
C14_Witness ==
    /\ a85.returned
    /\ a85.data = << 0, 0, 0, 0, 0, 0 >>
    /\ a85.encodedData = << 122, 33, 33, 33, 126, 62, CR, LF >>
\* ------------------------------------------- reading the accumulator
\* The operators of a run of appended texts, with their arguments.
OpsOf(texts) == [k \in 1 .. Len(texts) |-> << texts[k].t, texts[k].a >>]

\* What one call appended: the accumulator after the call without what it
\* held before.
Appended(before, after) ==
    OpsOf(SubSeq(after.m_contentStream, Len(before.m_contentStream) + 1,
                 Len(after.m_contentStream)))

\* TRUE when a call only appended to the accumulator.
OnlyAppended(before, after) ==
    /\ Len(after.m_contentStream) >= Len(before.m_contentStream)
    /\ SubSeq(after.m_contentStream, 1, Len(before.m_contentStream))
          = before.m_contentStream

\* A path as the content stream spells it: move-to for the first point,
\* line-to for the others, in point order.
PathOf(points) ==
    [k \in 1 .. Len(points) |->
        << IF k = 1 THEN "m" ELSE "l", << points[k].x, points[k].y >> >>]

\* ----------------------------------------------------------------- C15
\* C15: DrawPolygon with at least one point appends, for the current line
\* and fill patterns: nothing when both are null; the path, "h" and "B*" when
\* both are solid; the path, "h" and "f*" when only the fill is solid; the
\* path, "h" and "S" when only the line is solid.
C15_PolygonFollowsTheFillRuleTable ==
    [][(call'.op = "DrawPolygon" /\ arg' # << >>) =>
          /\ OnlyAppended(d, d')
          /\ Appended(d, d') =
                IF d.m_lineStyle.m_pattern = LINE_NULL /\ d.m_fillStyle.m_pattern = FILL_NULL
                THEN << >>
                ELSE PathOf(arg') \o << << "h", << >> >> >> \o
                     << << IF d.m_lineStyle.m_pattern = LINE_SOLID
                              /\ d.m_fillStyle.m_pattern = FILL_SOLID THEN "B*"
                           ELSE IF d.m_fillStyle.m_pattern = FILL_SOLID THEN "f*"
                           ELSE "S", << >> >> >>
          /\ d'.m_lineStyle = d.m_lineStyle
          /\ d'.m_fillStyle = d.m_fillStyle]_vars

\* A triangle was drawn with a null line and a solid fill: the accumulator
\* ends with its path, "h" and "f*".
C15_Witness ==
    /\ call.op = "DrawPolygon"
    /\ Len(arg) = 3
    /\ d.m_lineStyle.m_pattern = LINE_NULL
    /\ d.m_fillStyle.m_pattern = FILL_SOLID
    /\ Len(d.m_contentStream) >= 5
    /\ OpsOf(SubSeq(d.m_contentStream, Len(d.m_contentStream) - 4,
                    Len(d.m_contentStream)))
          = PathOf(arg) \o << << "h", << >> >>, << "f*", << >> >> >>

\* ----------------------------------------------------------------- C16
\* C16: DrawPolyline, and DrawLine, with at least one point leaves the
\* accumulator as it is when the line pattern is null, and otherwise appends
\* the path (one move-to, then a line-to for each further point) and one
\* "S", whatever the fill style is; it changes neither style.
C16_PolylineIgnoresTheFill ==
    [][(call'.op \in {"DrawPolyline", "DrawLine"} /\ arg' # << >>) =>
          /\ OnlyAppended(d, d')
          /\ Appended(d, d') =
                IF d.m_lineStyle.m_pattern = LINE_NULL THEN << >>
                ELSE PathOf(arg') \o << << "S", << >> >> >>
          /\ d'.m_lineStyle = d.m_lineStyle
          /\ d'.m_fillStyle = d.m_fillStyle]_vars

\* A polyline of three points was stroked while the fill pattern was null.
C16_Witness ==
    /\ call.op = "DrawPolyline"
    /\ Len(arg) = 3
    /\ d.m_lineStyle.m_pattern = LINE_SOLID
    /\ d.m_fillStyle.m_pattern = FILL_NULL
    /\ Len(d.m_contentStream) >= 4
    /\ OpsOf(SubSeq(d.m_contentStream, Len(d.m_contentStream) - 3,
                    Len(d.m_contentStream)))
          = PathOf(arg) \o << << "S", << >> >> >>

\* ----------------------------------------------------------------- C17
\* C17: DrawPolyline or DrawPolygon given an empty point list, under any
\* line and fill style, leaves the accumulator as it is and throws nothing.
C17_EmptyPointListIsANoOp ==
    [][(call'.op \in {"DrawPolyline", "DrawPolygon"} /\ arg' = << >>) =>
          /\ d'.m_contentStream = d.m_contentStream
          /\ thrown' = NoException]_vars

\* What holds instead: with an empty point list nothing is thrown, DrawPolyline
\* appends "S" unless the line pattern is null, and DrawPolygon appends "h"
\* and its painting operator unless both patterns are null.
C17_EmptyPointListStillPaints ==
    [][(call'.op \in {"DrawPolyline", "DrawPolygon"} /\ arg' = << >>) =>
          /\ thrown' = NoException
          /\ OnlyAppended(d, d')
          /\ (call'.op = "DrawPolyline" /\ d.m_lineStyle.m_pattern = LINE_SOLID) =>
                Appended(d, d') = << << "S", << >> >> >>
          /\ (call'.op = "DrawPolygon"
                /\ ~(d.m_lineStyle.m_pattern = LINE_NULL
                      /\ d.m_fillStyle.m_pattern = FILL_NULL)) =>
                (Len(Appended(d, d')) = 2 /\ Appended(d, d')[1] = << "h", << >> >>)
          /\ (call'.op = "DrawPolyline" /\ d.m_lineStyle.m_pattern = LINE_NULL) =>
                Appended(d, d') = << >>
          /\ (call'.op = "DrawPolygon" /\ d.m_lineStyle.m_pattern = LINE_NULL
                /\ d.m_fillStyle.m_pattern = FILL_NULL) =>
                Appended(d, d') = << >>]_vars
\* ------------------------------------------------- reading rawData
\* Channels of the repacked image: 1 for 8 bits a pixel, 3 for 24 and 32.
Channels(image) == IF image.m_bpp = 8 THEN 1 ELSE 3

\* The byte of channel c of pixel (x, y) in the pixel data of the image.
InputByte(image, x, y, c) ==
    image.m_pixels[y * image.m_stride + x * (image.m_bpp \div 8) + c + 1]

\* ----------------------------------------------------------------- C18
\* C18: the repacked buffer has exactly W * H * channels bytes: W * H for an
\* 8-bit image, 3 * W * H for a 24-bit and for a 32-bit image.
C18_RepackedSize ==
    repack.packed =>
       Len(repack.rawData)
          = repack.image.m_numX * repack.image.m_numY * Channels(repack.image)

\* What holds instead: the buffer has W * H * bitsPerPixel / 8 bytes, which is
\* W * H * channels for 8 and 24 bits and 4 * W * H for 32 bits.
C18_RepackedSizeIsTheInputSize ==
    repack.packed =>
       Len(repack.rawData)
          = (repack.image.m_numX * repack.image.m_numY * repack.image.m_bpp) \div 8

\* ----------------------------------------------------------------- C19
\* C19: the repacked buffer is the tightly packed image: the byte at index
\* (y * W + x) * channels + c is channel c of pixel (x, y) of the input, for
\* every pixel and channel, and the buffer holds no other byte.
C19_RepackedTightly ==
    repack.packed =>
       /\ \A y \in 0 .. repack.image.m_numY - 1, x \in 0 .. repack.image.m_numX - 1,
             c \in 0 .. Channels(repack.image) - 1 :
             /\ (y * repack.image.m_numX + x) * Channels(repack.image) + c + 1
                   \in DOMAIN repack.rawData
             /\ repack.rawData[(y * repack.image.m_numX + x) * Channels(repack.image) + c + 1]
                   = InputByte(repack.image, x, y, c)
       /\ \A i \in DOMAIN repack.rawData :
             \E y \in 0 .. repack.image.m_numY - 1, x \in 0 .. repack.image.m_numX - 1,
                c \in 0 .. Channels(repack.image) - 1 :
                i = (y * repack.image.m_numX + x) * Channels(repack.image) + c + 1

\* C19 for images of 8 and 24 bits a pixel: there the buffer is tightly packed.
C19_RepackedTightlyBelow32Bits ==
    repack.image.m_bpp # 32 => C19_RepackedTightly

\* What holds for every image: scanline y begins at index y * W * bpp / 8 of
\* the buffer and holds the channels of its pixels without gaps; every other
\* byte of the buffer is the zero it was allocated with.
C19_RepackedByInputWidth ==
    repack.packed =>
       \A i \in DOMAIN repack.rawData :
          LET rowBytes == (repack.image.m_numX * repack.image.m_bpp) \div 8
              y == (i - 1) \div rowBytes
              k == (i - 1) % rowBytes
          IN IF k < repack.image.m_numX * Channels(repack.image)
             THEN repack.rawData[i]
                    = InputByte(repack.image, k \div Channels(repack.image), y,
                                k % Channels(repack.image))
             ELSE repack.rawData[i] = 0
\* ----------------------------------------------------------------- C20
\* The writes a step added to the file that was open before it.
Written(before, after) ==
    SubSeq(after.disk[before.m_file].lines, Len(before.disk[before.m_file].lines) + 1,
           Len(after.disk[before.m_file].lines))

\* The positions of the image data among a run of writes.
ImageData(lines) ==
    { i \in 1 .. Len(lines) : lines[i].t \in {"deflated image", "ascii85 image"} }

\* C20: when a page of an open document is finalized (by NextPage, Close or
\* the destructor), each pending image is written once, by one codec, and
\* the codec is chosen by the image-compression flag as it stands then: when
\* set, every image of the page is tagged FlateDecode and holds what
\* DeflateData returned for its repacked bytes; when clear, every image is
\* tagged ASCII85Decode and holds the Ascii85 text of its repacked bytes; the
\* declared /Length is the number of bytes held.
C20_FilterTagMatchesTheCodec ==
    [][(call'.op \in {"NextPage", "Close", "~Draw2pdf"} /\ d.m_file # NULL) =>
          /\ { Written(d, d')[i].n : i \in ImageData(Written(d, d')) }
                = 0 .. Len(d.m_images) - 1
          /\ Cardinality(ImageData(Written(d, d'))) = Len(d.m_images)
          /\ \A i \in ImageData(Written(d, d')) :
                /\ i > 4
                /\ Written(d, d')[i].t
                      = IF d.m_compressImages THEN "deflated image" ELSE "ascii85 image"
                /\ Written(d, d')[i - 4].t
                      = IF d.m_compressImages THEN "/Filter /FlateDecode"
                        ELSE "/Filter /ASCII85Decode"
                /\ Written(d, d')[i - 3].t = "/Length"
                /\ Written(d, d')[i - 3].n = Written(d, d')[i].len
                /\ IF d.m_compressImages
                   THEN \E zok \in BOOLEAN :
                           Written(d, d')[i].len
                             = DeflateData(Len(RawData(d.m_images[Written(d, d')[i].n + 1])), zok)
                   ELSE Written(d, d')[i].len
                          = Len(EncodeToAscii85(RawData(d.m_images[Written(d, d')[i].n + 1])))]_vars

\* NextPage finalized a page holding two images while the flag was set: both
\* are in the file as deflated data.
C20_Witness ==
    /\ call.op = "NextPage"
    /\ d.m_file # NULL
    /\ d.m_compressImages
    /\ Len(LinesOf(d.disk[d.m_file].lines, "deflated image")) = 2
    /\ LinesOf(d.disk[d.m_file].lines, "ascii85 image") = << >>
\* ----------------------------------------------------------------- C21
\* The image names the content stream invokes ("/Im%zu Do"), in order.
DoNames(texts) ==
    [k \in 1 .. Len(SelectSeq(texts, LAMBDA x : x.t = "Do")) |->
        SelectSeq(texts, LAMBDA x : x.t = "Do")[k].a[1]]

\* The pairs << name, object number >> an XObject dictionary among the
\* writes lists ("/Im%zu %zu 0 R").
Listed(lines) ==
    { << LinesOf(lines, "/Im")[k].name, LinesOf(lines, "/Im")[k].n >> :
         k \in 1 .. Len(LinesOf(lines, "/Im")) }

\* The pairs << name, object number >> of the image objects among the
\* writes: "/Name /Im%zu" is the fourth line after "%zu 0 obj".
ImageObjects(lines) ==
    { << lines[i].n, lines[i - 4].n >> :
         i \in { j \in 5 .. Len(lines) : lines[j].t = "/Name /Im" } }

\* The names and numbers of a page on which the images numbered by images
\* were drawn, in that order.
NamesOf(images) == { << k - 1, images[k] >> : k \in 1 .. Len(images) }

\* The content stream invokes the images as Im0, Im1, ... in draw order, and
\* the writes list and hold each of them under its name and the number
\* reserved for it.
PageNaming(images, stream, lines) ==
    /\ DoNames(stream) = [k \in 1 .. Len(images) |-> k - 1]
    /\ Len(LinesOf(lines, "/Im")) = Len(images)
    /\ Listed(lines) = NamesOf(images)
    /\ Len(LinesOf(lines, "/Name /Im")) = Len(images)
    /\ ImageObjects(lines) = NamesOf(images)

\* A step that ends the current page of the open document and leaves what it
\* wrote in the file (Open on the name of the open file ends the page too,
\* then truncates the file).
PageEnds == EndsPage(call'.op) /\ (call'.op = "Open" => d'.m_file # d.m_file)

\* C21: when a page of an open document is finalized, the k-th image drawn
\* on that page (k from 0) is invoked in its content stream as Imk, listed
\* in its XObject dictionary as Imk with the object number DrawImage
\* reserved, and written as the object of that number; nothing else is
\* invoked, listed or written.
C21_ImageNamesRestartPerPage ==
    [][PageEnds =>
          PageNaming(session.images, d.m_contentStream, Written(d, d'))]_vars

\* The same, for the pages that begin with nothing drawn before Open.
C21_ImageNamesRestartPerPageOfTheDocument ==
    [][(PageEnds /\ ~session.stray) =>
          PageNaming(session.images, d.m_contentStream, Written(d, d'))]_vars

\* The second page of a document is finalized with one image drawn on it,
\* after a first page that had one too.
C21_Witness ==
    /\ call.op \in {"Close", "~Draw2pdf"}
    /\ call.finalized
    /\ Len(LinesOf(DoneLines, "/Im")) = 2
    /\ \A k \in 1 .. 2 : LinesOf(DoneLines, "/Im")[k].name = 0
    /\ LinesOf(DoneLines, "/Im")[1].n # LinesOf(DoneLines, "/Im")[2].n
\* ----------------------------------------------------------------- C22
\* The lines of kind t in any file.
AnyLines(t) == UNION { Range(LinesOf(d.disk[f].lines, t)) : f \in Filenames }

\* C22: in a program that never calls EnableImageCompression or
\* EnableContentCompression, every image written is FlateDecode data and
\* every page content stream written is uncompressed.
C22_DefaultsCompressImagesOnly ==
    /\ AnyLines("ascii85 image") = {}
    /\ AnyLines("deflated content") = {}

\* In such a program nothing is compressed: both flags stay clear, every
\* image written is Ascii85 text tagged ASCII85Decode, every content stream
\* is written as it is, and no FlateDecode tag is written.
C22_DefaultsCompressNothing ==
    /\ ~d.m_compressImages
    /\ ~d.m_compressContent
    /\ AnyLines("deflated image") = {}
    /\ AnyLines("deflated content") = {}
    /\ AnyLines("/Filter /FlateDecode") = {}

\* A finalized document holding an image, written with the defaults.
C22_Witness ==
    /\ call.finalized
    /\ LinesOf(DoneLines, "ascii85 image") # << >>
    /\ LinesOf(DoneLines, "content") # << >>
\* ----------------------------------------------------------------- C23
\* The positions of the FlateDecode payloads of zero length among a run of
\* writes.
ZeroPayloads(lines) ==
    { i \in 1 .. Len(lines) :
         lines[i].t \in {"deflated image", "deflated content"} /\ lines[i].len = 0 }

\* The compress() calls of a step that did not return Z_OK.
Failures(deflate) == { k \in DOMAIN deflate : ~deflate[k] }

\* C23: a step that writes a stream object with a zero-length FlateDecode
\* payload, which is what a failed compress() leaves, notifies its caller.
C23_CompressionFailureIsSurfaced ==
    [][(PageEnds /\ ZeroPayloads(Written(d, d')) # {}) => thrown' # NoException]_vars

\* What NextPage, Close and the destructor do instead: each failed
\* compress() leaves one zero-length FlateDecode payload in the file, and
\* the call returns normally.
C23_CompressionFailureIsSilent ==
    [][(PageEnds /\ call'.op # "Open") =>
          /\ Cardinality(ZeroPayloads(Written(d, d'))) = Cardinality(Failures(call'.deflate))
          /\ thrown' = NoException]_vars

\* NextPage met a failing compress() on an image.
C23_Witness ==
    /\ call.op = "NextPage"
    /\ call.wasOpen
    /\ \E k \in DOMAIN call.deflate : k > 0 /\ ~call.deflate[k]
    /\ thrown = NoException
\* ----------------------------------------------------------------- C24
\* The smaller of two numbers.
Min(a, b) == IF a < b THEN a ELSE b

\* The operators DrawTextString appends besides the text itself.
TextFrame(style, point) ==
    << << "q", << >> >>,
       << "BT", << >> >>,
       << "Tf", << style.m_height >> >>,
       << "rg", << style.m_color.m_red, style.m_color.m_green, style.m_color.m_blue >> >>,
       << "Td", << point.x, point.y >> >> >>

\* C24: DrawTextString leaves what the accumulator held as it was and
\* appends its eight renderings; the rendering of the text, "(%s) Tj\r\n",
\* is appended whole when it fits the largest scratch buffer and cut to the
\* LargestBuffer - 1 bytes that fit otherwise, which keeps the first
\* LargestBuffer - 2 characters of the text.
C24_OverlongTextIsTruncated ==
    [][call'.op = "DrawTextString" =>
          /\ OnlyAppended(d, d')
          /\ Appended(d, d')
                = TextFrame(d.m_textStyle, PDFPoint(100, 290))
                  \o << << "Tj", SubSeq(arg', 1, Min(Len(arg'), LargestBuffer - 2)) >>,
                        << "ET", << >> >>, << "Q", << >> >> >>]_vars

\* What Printf does instead: a rendering that fits no attempted buffer is
\* dropped whole, so the text operator is missing and the other seven
\* renderings are appended; a rendering that fits is appended whole.
C24_OverlongTextIsDropped ==
    [][call'.op = "DrawTextString" =>
          /\ OnlyAppended(d, d')
          /\ Appended(d, d')
                = TextFrame(d.m_textStyle, PDFPoint(100, 290))
                  \o (IF Len(arg') + 7 < LargestBuffer
                      THEN << << "Tj", arg' >> >> ELSE << >>)
                  \o << << "ET", << >> >>, << "Q", << >> >> >>]_vars

\* DrawTextString was given a text whose rendering does not fit, after
\* something had been accumulated.
C24_Witness ==
    /\ call.op = "DrawTextString"
    /\ Len(arg) + 7 >= LargestBuffer
    /\ Len(d.m_contentStream) > 7
\* ----------------------------------------------------------------- C25
\* The position of the first line of kind t among the writes.
IndexOf(lines, t) == CHOOSE i \in 1 .. Len(lines) : lines[i].t = t

\* C25: in every finalized document the number written after startxref is
\* the file position at which the one "xref" line begins; the last three
\* lines of the file are startxref, that number and %%EOF, and the file ends
\* with the marker.
C25_StartxrefPointsAtXref ==
    done.intact =>
       /\ \A t \in {"xref", "startxref", "xref offset", "%%EOF"} :
             Len(LinesOf(DoneLines, t)) = 1
       /\ LinesOf(DoneLines, "xref offset")[1].n
             = Offset(DoneLines, IndexOf(DoneLines, "xref"))
       /\ DoneLines[Len(DoneLines) - 2].t = "startxref"
       /\ DoneLines[Len(DoneLines) - 1].t = "xref offset"
       /\ DoneLines[Len(DoneLines)].t = "%%EOF"
       /\ d.disk[done.file].size = Offset(DoneLines, Len(DoneLines) + 1)

\* A finalized two-page document: its xref table lies behind the objects of
\* both pages.
C25_Witness ==
    /\ done.intact
    /\ Len(done.pages) = 2
    /\ LinesOf(DoneLines, "xref offset")[1].n > 400
    /\ LinesOf(DoneLines, "xref offset")[1].n = Offset(DoneLines, IndexOf(DoneLines, "xref"))
\* ----------------------------------------------------------------- C26
\* The positions among the writes where an object or a part of the file's
\* tail begins.
LandmarkAt(lines) ==
    { i \in 1 .. Len(lines) : lines[i].t \in {"obj", "xref", "trailer", "startxref", "%%EOF"} }

\* The landmarks of a run of writes, in order: an object is given by the
\* first line of its dictionary and its number, a part of the tail by its
\* keyword.
LandmarksAt(lines, at) ==
    [k \in 1 .. Cardinality(at) |->
        LET i == CHOOSE j \in at : Cardinality({ h \in at : h <= j }) = k
        IN IF lines[i].t = "obj" THEN << lines[i + 2].t, lines[i].n >>
           ELSE << lines[i].t, 0 >>]
Landmarks(lines) == LandmarksAt(lines, LandmarkAt(lines))

\* How the content-stream object and the XObject-table object of page s
\* begin.
ContentLandmark(s) ==
    << IF s.m_compressContent THEN "/Filter /FlateDecode" ELSE "/Length",
       s.m_contentsObjNumber >>
XObjectLandmark(s) ==
    << IF s.m_images = << >> THEN ">>" ELSE "/Im", s.m_xobjectObjNumber >>

\* The landmarks of the end of page s: content stream, XObject table, then
\* the images in draw order.
PageEndLandmarks(s) ==
    << ContentLandmark(s), XObjectLandmark(s) >>
    \o [k \in 1 .. Len(s.m_images) |-> << "/Type /XObject", s.m_images[k].m_objNum >>]

\* The writes of Close on the open document s: the end of its page, the
\* Pages object, the xref table whose entries are the offsets of crossRefs,
\* which are in object-number order, the trailer, startxref and %%EOF.
CloseWrites(s, lines, crossRefs) ==
    /\ Landmarks(lines)
          = PageEndLandmarks(s)
            \o << << "/Type /Pages /Kids [", s.m_pagesObjNumber >>,
                  << "xref", 0 >>, << "trailer", 0 >>,
                  << "startxref", 0 >>, << "%%EOF", 0 >> >>
    /\ [k \in 1 .. Len(LinesOf(lines, "entry")) |-> LinesOf(lines, "entry")[k].n]
          = [k \in 1 .. Len(crossRefs) |-> crossRefs[k].m_offset]
    /\ \A k \in 1 .. Len(crossRefs) - 1 :
          crossRefs[k].m_objnum <= crossRefs[k + 1].m_objnum

\* C26: Close on an open document (called by the program or by the
\* destructor) writes, in this order and once each: the content-stream
\* object, the XObject-table object and the image objects of the current
\* page in draw order, the Pages object, the xref table with its entries in
\* object-number order, the trailer, startxref and %%EOF; then the file is
\* closed and the members are back at their initial values.  No object
\* follows the xref table.
C26_CloseStepsInOrder ==
    [][(call'.op \in {"Close", "~Draw2pdf"} /\ d.m_file # NULL) =>
          /\ CloseWrites(d, Written(d, d'), done'.crossRefs)
          /\ d'.m_file = NULL
          /\ InitialMembers(d')]_vars

\* Close finalized a document whose last page holds two images.
C26_Witness ==
    /\ call.op = "Close"
    /\ call.finalized
    /\ Len(Landmarks(DoneLines)) >= 9
    /\ Landmarks(DoneLines)[Len(Landmarks(DoneLines)) - 5][1] = "/Type /XObject"
    /\ Landmarks(DoneLines)[Len(Landmarks(DoneLines)) - 6][1] = "/Type /XObject"
\* ----------------------------------------------------------------- C27
\* The pairs << object number, file position >> of the objects among the
\* writes, the first of which is at position base.
ObjectsAt(lines, base) ==
    { << lines[i].n, base + Offset(lines, i) >> :
         i \in { j \in 1 .. Len(lines) : lines[j].t = "obj" } }

\* The pairs << object number, offset >> of a cross-reference list.
CrossRefPairs(refs) == { << refs[k].m_objnum, refs[k].m_offset >> : k \in 1 .. Len(refs) }

\* The numbers of the current page that await the end of the page: its
\* content stream, its XObject table and its images.
Pending(s) ==
    {s.m_contentsObjNumber, s.m_xobjectObjNumber}
    \cup { s.m_images[k].m_objNum : k \in 1 .. Len(s.m_images) }

\* The current page of the open document s holds the numbers n, n + 1 and
\* n + 2; objects is what the file holds.  The page object n is the last
\* object of the file and has its cross-reference entry; no pending number
\* has an object or an entry yet.
PageBegun(s, n, objects) ==
    /\ s.m_contentsObjNumber = n + 1
    /\ s.m_xobjectObjNumber = n + 2
    /\ Landmarks(s.disk[s.m_file].lines)[Len(Landmarks(s.disk[s.m_file].lines))]
          = << "/Type /Page", n >>
    /\ \E pair \in objects : pair[1] = n /\ pair \in CrossRefPairs(s.m_crossRefs)
    /\ \A pair \in objects \cup CrossRefPairs(s.m_crossRefs) : pair[1] \notin Pending(s)

\* The writes of the end of page s begin with its content stream, its
\* XObject table and its images, and each object written has its entry,
\* with its position, in the cross-reference list refs.
PageEnded(s, lines, refs) ==
    /\ Len(Landmarks(lines)) >= Len(PageEndLandmarks(s))
    /\ SubSeq(Landmarks(lines), 1, Len(PageEndLandmarks(s))) = PageEndLandmarks(s)
    /\ ObjectsAt(lines, s.disk[s.m_file].size) \subseteq CrossRefPairs(refs)

\* C27: a call that begins a page (Open, NextPage) hands out n, n + 1 and
\* n + 2 for the page object, its content stream and its XObject table, and
\* writes the page object with its cross-reference entry at once; as long as
\* the page is current, the content stream, the XObject table and the images
\* have their numbers and neither bytes nor entries; DrawImage hands out the
\* image's number and writes nothing; the end of the page writes the content
\* stream, the XObject table and the images with their entries.  (As long as
\* no call has used a null m_file.)
C27_PageObjectWrittenAtBeginPage ==
    [][~d'.nullDeref =>
       /\ d'.m_file # NULL =>
             /\ d'.m_pageObjectNumbers # << >>
             /\ PageBegun(d', d'.m_pageObjectNumbers[Len(d'.m_pageObjectNumbers)],
                          ObjectsAt(d'.disk[d'.m_file].lines, 0))
       /\ (d'.m_file # NULL /\ call'.op \in {"Open", "NextPage"}) =>
             /\ Len(call'.got) >= 3
             /\ SubSeq(call'.got, Len(call'.got) - 2, Len(call'.got))
                   = << d'.m_objNumber - 3, d'.m_objNumber - 2, d'.m_objNumber - 1 >>
             /\ d'.m_xobjectObjNumber = d'.m_objNumber - 1
       /\ call'.op = "DrawImage" =>
             /\ call'.got = << d.m_objNumber >>
             /\ d'.m_images[Len(d'.m_images)].m_objNum = d.m_objNumber
             /\ d'.disk = d.disk
             /\ d'.m_crossRefs = d.m_crossRefs
       /\ PageEnds =>
             PageEnded(d, Written(d, d'),
                       IF call'.op = "NextPage" THEN d'.m_crossRefs ELSE done'.crossRefs)
      ]_vars

\* The claim as stated: while a page is current none of its three objects
\* has bytes or a cross-reference entry.
C27_AllThreeWrittenAtEndPage ==
    (d.m_file # NULL /\ d.m_pageObjectNumbers # << >>) =>
       \A pair \in ObjectsAt(d.disk[d.m_file].lines, 0) \cup CrossRefPairs(d.m_crossRefs) :
          pair[1] \notin Pending(d) \cup {d.m_pageObjectNumbers[Len(d.m_pageObjectNumbers)]}

\* NextPage has begun the second page of a document whose first page held
\* an image.
C27_Witness ==
    /\ call.op = "NextPage"
    /\ call.wasOpen
    /\ d.m_file # NULL
    /\ ~d.nullDeref
    /\ Len(d.m_pageObjectNumbers) = 2
    /\ LinesOf(d.disk[d.m_file].lines, "/Im") # << >>
\* ----------------------------------------------------------------- C28
\* The operators a drawing call of the program appends (the line pattern of
\* the program is solid).
OperatorsOf(op) ==
    CASE op = "SetLineStyle" -> << "RG", "w" >>
      [] op = "SetFillStyle" -> << "rg" >>
      [] op = "DrawLine" -> << "m", "l", "S" >>
      [] op = "DrawImage" -> << "q", "cm", "Do", "Q" >>
      [] OTHER -> << >>

\* The operators a sequence of drawing calls appends.
RECURSIVE OperatorsDrawn(_)
OperatorsDrawn(ops) ==
    IF ops = << >> THEN << >> ELSE OperatorsOf(Head(ops)) \o OperatorsDrawn(Tail(ops))

\* The content streams among the writes, and the operators of one.
ContentWritten(lines) == SelectSeq(lines, LAMBDA l : l.t \in {"content", "deflated content"})
OperatorsIn(texts) == [k \in 1 .. Len(texts) |-> texts[k].t]

\* The numbers of the image objects among the writes, in order.
ImagesWritten(lines) ==
    [k \in 1 .. Len(SelectSeq(Landmarks(lines), LAMBDA m : m[1] = "/Type /XObject")) |->
        SelectSeq(Landmarks(lines), LAMBDA m : m[1] = "/Type /XObject")[k][2]]

\* The writes hold one content stream, which is made of the operators of
\* the calls drawn, and the images numbered by images, in order; when
\* whole, the content stream holds them also when it is compressed, and no
\* image is the empty payload a failed compress() leaves.
PageKept(drawn, images, lines, whole) ==
    /\ Len(ContentWritten(lines)) = 1
    /\ (whole \/ ContentWritten(lines)[1].t = "content") =>
          OperatorsIn(ContentWritten(lines)[1].data) = OperatorsDrawn(drawn)
    /\ ImagesWritten(lines) = images
    /\ whole => \A i \in ZeroPayloads(lines) : lines[i].t # "deflated image"

\* C28: the end of a page of an open document (begun with nothing drawn
\* before Open) writes the operators of exactly the calls drawn on that
\* page, in order, and exactly the images drawn on it, none of them as an
\* empty payload, and leaves the accumulator and the image list empty.
C28_PagesKeepWhatWasDrawn ==
    [][(PageEnds /\ ~session.stray) =>
          /\ PageKept(session.drawn, session.images, Written(d, d'), TRUE)
          /\ d'.m_contentStream = << >>
          /\ d'.m_images = << >>]_vars

\* What holds instead: the same, except that a failed compress() leaves the
\* content stream or the image it was given as an empty payload.
C28_PagesKeepWhatWasDrawnUnlessCompressFails ==
    [][(PageEnds /\ ~session.stray) =>
          /\ PageKept(session.drawn, session.images, Written(d, d'), FALSE)
          /\ Failures(call'.deflate) = {} =>
                PageKept(session.drawn, session.images, Written(d, d'), TRUE)
          /\ (d.m_compressContent /\ ~call'.deflate[0]) =>
                ContentWritten(Written(d, d'))[1].data = << >>
          /\ (d.m_compressContent /\ call'.deflate[0]) =>
                OperatorsIn(ContentWritten(Written(d, d'))[1].data)
                   = OperatorsDrawn(session.drawn)
          /\ d'.m_contentStream = << >>
          /\ d'.m_images = << >>]_vars

\* NextPage ended a page on which a line and an image were drawn, and began
\* the next with nothing pending.
C28_Witness ==
    /\ call.op = "NextPage"
    /\ call.wasOpen
    /\ ~d.nullDeref
    /\ d.m_contentStream = << >>
    /\ d.m_images = << >>
    /\ \E i \in 1 .. Len(d.disk[d.m_file].lines) :
          /\ d.disk[d.m_file].lines[i].t = "content"
          /\ Len(d.disk[d.m_file].lines[i].data) = 7
\* ----------------------------------------------------------------- C29
\* The payload at position i of the writes is empty, tagged FlateDecode with
\* /Length 0, and its stream object is closed as usual.
EmptyFlateStream(lines, i) ==
    /\ i > 4
    /\ i + 3 <= Len(lines)
    /\ lines[i].len = 0
    /\ lines[i - 4].t = "/Filter /FlateDecode"
    /\ lines[i - 3].t = "/Length"
    /\ lines[i - 3].n = 0
    /\ lines[i - 1].t = "stream"
    /\ lines[i + 1].t = "crlf"
    /\ lines[i + 2].t = "endstream"
    /\ lines[i + 3].t = "endobj"

\* What the writes of a page end hold for the compress() calls that failed
\* (0 for the content stream, k for the k-th image): one empty FlateDecode
\* stream each, the image's under its own name and in no other encoding.
FailuresWritten(lines, failed) ==
    /\ Cardinality(ZeroPayloads(lines)) = Cardinality(failed)
    /\ \A i \in ZeroPayloads(lines) : EmptyFlateStream(lines, i)
    /\ 0 \in failed =>
          /\ ContentWritten(lines)[1].t = "deflated content"
          /\ ContentWritten(lines)[1].len = 0
          /\ ContentWritten(lines)[1].data = << >>
    /\ \A k \in failed \ {0} :
          /\ \E i \in ZeroPayloads(lines) :
                lines[i].t = "deflated image" /\ lines[i].n = k - 1
          /\ Cardinality({ i \in ImageData(lines) : lines[i].n = k - 1 }) = 1

\* C29: when compress() fails at the end of a page of an open document, the
\* stream object it was called for is written with /Filter /FlateDecode,
\* /Length 0 and no payload, and in no other encoding; every object written
\* has its cross-reference entry; nothing is thrown, the program runs on, and
\* after NextPage the document is still open on its next page.
C29_FailedCompressionWritesAnEmptyStream ==
    [][PageEnds =>
          /\ FailuresWritten(Written(d, d'), Failures(call'.deflate))
          /\ ObjectsAt(Written(d, d'), d.disk[d.m_file].size)
                \subseteq CrossRefPairs(IF call'.op = "NextPage" THEN d'.m_crossRefs
                                        ELSE done'.crossRefs)
          /\ call'.op # "Open" => thrown' = NoException
          /\ life' # "aborted"
          /\ call'.op = "NextPage" =>
                /\ d'.m_file = d.m_file
                /\ Len(d'.m_pageObjectNumbers) = Len(d.m_pageObjectNumbers) + 1]_vars

\* Close finalized a document while compress() failed both for the content
\* of the last page and for an image on it.
C29_Witness ==
    /\ call.op = "Close"
    /\ call.finalized
    /\ done.intact
    /\ {0, 1} \subseteq Failures(call.deflate)
    /\ Cardinality(ZeroPayloads(DoneLines)) >= 2
\* ----------------------------------------------------------------- C30
\* value * 85 + digit for a value kept as five bytes, most significant
\* first: wide enough for every five-digit base-85 number.
MulAdd85Wide(bytes, digit) ==
    LET v5 == bytes[5] * 85 + digit
        v4 == bytes[4] * 85 + v5 \div 256
        v3 == bytes[3] * 85 + v4 \div 256
        v2 == bytes[2] * 85 + v3 \div 256
        v1 == bytes[1] * 85 + v2 \div 256
    IN << v1 % 256, v2 % 256, v3 % 256, v4 % 256, v5 % 256 >>

\* The number five base-85 digits stand for, most significant digit first.
RECURSIVE DigitsValue(_, _)
DigitsValue(bytes, digits) ==
    IF digits = << >> THEN bytes
    ELSE DigitsValue(MulAdd85Wide(bytes, Head(digits)), Tail(digits))

\* a <= b for two numbers kept as byte sequences of equal length.
BytesLeq(a, b) ==
    \/ a = b
    \/ \E i \in 1 .. Len(a) : a[i] < b[i] /\ \A j \in 1 .. i - 1 : a[j] = b[j]

\* The 32-bit value of a group: its bytes big-endian, the missing ones zero
\* (written on five bytes).
Packed(group) == << 0 >> \o group \o [i \in 1 .. 4 - Len(group) |-> 0]

\* digits, padded to five with the digit pad.
PaddedDigits(digits, pad) == digits \o [i \in 1 .. 5 - Len(digits) |-> pad]

\* chars are the characters the group is to get: as many as it has bytes
\* plus one, each a digit plus 33 within '!' .. 'u', and the digits are the
\* leading base-85 digits of the group's packed value (all five for a full
\* group, whose value they make up exactly).
GroupExpanded(group, chars) ==
    /\ Len(chars) = Len(group) + 1
    /\ \A i \in 1 .. Len(chars) : chars[i] \in 33 .. 117
    /\ BytesLeq(DigitsValue(<< 0, 0, 0, 0, 0 >>,
                            PaddedDigits([i \in 1 .. Len(chars) |-> chars[i] - 33], 0)),
                Packed(group))
    /\ BytesLeq(Packed(group),
                DigitsValue(<< 0, 0, 0, 0, 0 >>,
                            PaddedDigits([i \in 1 .. Len(chars) |-> chars[i] - 33], 84)))

\* C30: the returned text is its input groups expanded one after the other;
\* a full group that is not zero becomes the five base-85 digits of its
\* big-endian 32-bit value, most significant first, each plus 33; a final
\* group of k < 4 bytes becomes the first k + 1 digits of the value of its
\* bytes followed by zero bytes; every digit character is within '!' .. 'u',
\* and five digits hold every 32-bit value.
C30_GroupsExpandToBase85Digits ==
    a85.returned =>
       /\ Payload(a85.encodedData) = GroupWise(Groups(a85.data), 1, Len(Groups(a85.data)))
       /\ \A group \in Range(Groups(a85.data)) :
             group # ZeroTuple => GroupExpanded(group, Alone(group))

\* Data that begins with a group of four 0xFF bytes, the largest value
\* ("s8W-!"), and ends with a group of three bytes.
C30_Witness ==
    /\ a85.returned
    /\ Len(a85.data) % 4 = 3
    /\ Len(a85.data) > 4
    /\ SubSeq(a85.data, 1, 4) = << 255, 255, 255, 255 >>
    /\ SubSeq(a85.encodedData, 1, 5) = << 115, 56, 87, 45, 33 >>
\* ----------------------------------------------------------------- C31
\* The column after n characters were pushed: PushChar starts a new line
\* after every (lineWidth + 1)-th character.
ColumnAfter(n) == n % (lineWidth + 1)

\* The number of line breaks in a text.
LineBreaks(text) == Cardinality({ i \in 1 .. Len(text) : text[i] = LF })

\* C31: for every input of at least one byte the returned text ends with
\* '~', '>', CR, LF, and that '~' is the only one; before it stand the
\* encoded characters with the line breaks of the wrapping, and one more CR LF
\* right before "~>" exactly when the column reached plus 2 exceeds the line
\* width.
C31_TerminatorClosesTheText ==
    (a85.returned /\ Len(a85.data) >= 1) =>
       /\ Len(a85.encodedData) >= 4
       /\ SubSeq(a85.encodedData, Len(a85.encodedData) - 3, Len(a85.encodedData))
             = << 126, 62, CR, LF >>
       /\ { i \in 1 .. Len(a85.encodedData) : a85.encodedData[i] = 126 }
             = { Len(a85.encodedData) - 3 }
       /\ LineBreaks(a85.encodedData)
             = 1 + Len(Payload(a85.encodedData)) \div (lineWidth + 1)
                 + (IF ColumnAfter(Len(Payload(a85.encodedData))) + 2 > lineWidth
                    THEN 1 ELSE 0)
       /\ (ColumnAfter(Len(Payload(a85.encodedData))) + 2 > lineWidth) =>
             SubSeq(a85.encodedData, Len(a85.encodedData) - 5, Len(a85.encodedData) - 4)
                = << CR, LF >>
       /\ (ColumnAfter(Len(Payload(a85.encodedData))) + 2 <= lineWidth
             /\ ColumnAfter(Len(Payload(a85.encodedData))) > 0) =>
             a85.encodedData[Len(a85.encodedData) - 4] \notin {CR, LF}

\* The last line held lineWidth - 1 characters when the data ended: the
\* terminator went to a line of its own.
C31_Witness ==
    /\ a85.returned
    /\ ColumnAfter(Len(Payload(a85.encodedData))) = lineWidth - 1
    /\ SubSeq(a85.encodedData, Len(a85.encodedData) - 5, Len(a85.encodedData))
          = << CR, LF, 126, 62, CR, LF >>
\* ----------------------------------------------------------------- C32
\* The texts of the "Tj" operators among what a call appended.
ShownTexts(ops) == SelectSeq(ops, LAMBDA o : o[1] = "Tj")

\* C32: DrawTextString appends the rendering of its text, "(%s) Tj\r\n",
\* whole whenever it is shorter than ScratchLimit (16384) bytes.
C32_TextBelowTheLimitIsAppended ==
    [][(call'.op = "DrawTextString" /\ Len(arg') + 7 < ScratchLimit) =>
          ShownTexts(Appended(d, d')) = << << "Tj", arg' >> >>]_vars

\* What holds instead: the largest buffer attempted is half of ScratchLimit,
\* and the rendering is appended whole exactly when it and its NUL fit that
\* buffer.
C32_TextBelowHalfTheLimitIsAppended ==
    [][call'.op = "DrawTextString" =>
          /\ 2 * LargestBuffer = ScratchLimit
          /\ PrintfFits(LargestBuffer - 1, 32)
          /\ ~PrintfFits(LargestBuffer, 32)
          /\ Len(arg') + 7 < LargestBuffer =>
                ShownTexts(Appended(d, d')) = << << "Tj", arg' >> >>
          /\ Len(arg') + 7 >= LargestBuffer => ShownTexts(Appended(d, d')) = << >>]_vars

\* DrawTextString was given a text whose rendering is the longest that fits.
C32_Witness ==
    /\ call.op = "DrawTextString"
    /\ Len(arg) + 7 = LargestBuffer - 1
    /\ d.m_contentStream[Len(d.m_contentStream) - 2].a = arg
\* ----------------------------------------------------------------- C33
\* The corners of the box given by its two points, as DrawRectangle is to
\* walk them: min/min, max/min, max/max, min/max.
Corners(minmax) ==
    << PDFPoint(minmax[1].x, minmax[1].y), PDFPoint(minmax[2].x, minmax[1].y),
       PDFPoint(minmax[2].x, minmax[2].y), PDFPoint(minmax[1].x, minmax[2].y) >>

\* What a polygon on points is to append under the line and fill patterns.
PolygonOps(line, fill, points) ==
    IF line = LINE_NULL /\ fill = FILL_NULL THEN << >>
    ELSE PathOf(points) \o << << "h", << >> >> >> \o
         << << IF line = LINE_SOLID /\ fill = FILL_SOLID THEN "B*"
               ELSE IF fill = FILL_SOLID THEN "f*" ELSE "S", << >> >> >>

\* What a polyline on points is to append under the line pattern.
PolylineOps(line, points) ==
    IF line = LINE_NULL THEN << >> ELSE PathOf(points) \o << << "S", << >> >> >>

\* C33: under every line and fill style, DrawRectangle leaves the instance
\* as DrawPolygon on the four corners min/min, max/min, max/max, min/max
\* does, and DrawLine as DrawPolyline on its two points does: the same
\* operators are appended (none in the null-style cases) and nothing else
\* changes.
C33_RectangleIsAPolygonAndLineAPolyline ==
    [][/\ call'.op = "DrawRectangle" =>
             /\ d' = DrawPolygon(d, Corners(arg'))
             /\ OnlyAppended(d, d')
             /\ Appended(d, d')
                   = PolygonOps(d.m_lineStyle.m_pattern, d.m_fillStyle.m_pattern,
                                Corners(arg'))
       /\ call'.op = "DrawLine" =>
             /\ d' = DrawPolyline(d, arg')
             /\ OnlyAppended(d, d')
             /\ Appended(d, d') = PolylineOps(d.m_lineStyle.m_pattern, arg')]_vars

\* A rectangle was drawn with both styles solid: four corners, "h", "B*".
C33_Witness ==
    /\ call.op = "DrawRectangle"
    /\ d.m_lineStyle.m_pattern = LINE_SOLID
    /\ d.m_fillStyle.m_pattern = FILL_SOLID
    /\ Len(d.m_contentStream) >= 6
    /\ OpsOf(SubSeq(d.m_contentStream, Len(d.m_contentStream) - 5,
                    Len(d.m_contentStream)))
          = << << "m", << 175, 200 >> >>, << "l", << 475, 200 >> >>,
               << "l", << 475, 300 >> >>, << "l", << 175, 300 >> >>,
               << "h", << >> >>, << "B*", << >> >> >>
\* ----------------------------------------------------------------- C34
\* The graphics-state depth after the first k texts of the accumulator: the
\* pushes ("q") less the pops ("Q").
Depth(texts, k) ==
    Cardinality({ i \in 1 .. k : texts[i].t = "q" })
    - Cardinality({ i \in 1 .. k : texts[i].t = "Q" })

\* Pushes and pops are nested and the depth is 0 at the end.
Balanced(texts) ==
    /\ \A k \in 1 .. Len(texts) : Depth(texts, k) >= 0
    /\ Depth(texts, Len(texts)) = 0

\* The operators of what a call appended, without their arguments.
OperatorsAppended(before, after) ==
    [k \in 1 .. Len(Appended(before, after)) |-> Appended(before, after)[k][1]]

\* C34: DrawTextString appends q, BT, Tf, rg, Td, Tj, ET, Q in this order
\* for any text, DrawImage appends q, cm, Do, Q, and after every call the
\* pushes and pops of the accumulator are nested with depth 0.
C34_TextAndImageBracketed ==
    [][/\ call'.op = "DrawTextString" =>
             OperatorsAppended(d, d') = << "q", "BT", "Tf", "rg", "Td", "Tj", "ET", "Q" >>
       /\ call'.op = "DrawImage" =>
             OperatorsAppended(d, d') = << "q", "cm", "Do", "Q" >>
       /\ Balanced(d'.m_contentStream)]_vars

\* What holds for any text: the pushes and pops stay nested with depth 0
\* after every call; the eight operators are appended when the rendering of
\* the text fits the largest scratch buffer, and the seven around "Tj"
\* otherwise.
C34_BracketedAlsoWithoutTheText ==
    [][/\ call'.op = "DrawTextString" =>
             OperatorsAppended(d, d')
                = << "q", "BT", "Tf", "rg", "Td" >>
                  \o (IF Len(arg') + 7 < LargestBuffer THEN << "Tj" >> ELSE << >>)
                  \o << "ET", "Q" >>
       /\ call'.op = "DrawImage" =>
             OperatorsAppended(d, d') = << "q", "cm", "Do", "Q" >>
       /\ Balanced(d'.m_contentStream)]_vars

\* An image was placed after a text was drawn: two bracketed groups.
C34_Witness ==
    /\ call.op = "DrawImage"
    /\ Len(d.m_contentStream) >= 12
    /\ d.m_contentStream[Len(d.m_contentStream) - 4].t = "Q"
    /\ d.m_contentStream[Len(d.m_contentStream) - 6].t = "Tj"
    /\ Depth(d.m_contentStream, Len(d.m_contentStream) - 1) = 1
\* ----------------------------------------------------------------- C35
\* The instance s has just begun a document in a new file: numbers 1 to 5
\* handed out, the file holds the catalog (object 1) and the first page
\* (object 3) and nothing else, with their cross-reference entries, and
\* nothing is accumulated.
NewDocument(s, got) ==
    /\ got = << 1, 2, 3, 4, 5 >>
    /\ s.m_objNumber = 6
    /\ Landmarks(s.disk[s.m_file].lines) = << << "/Type /Catalog", 1 >>, << "/Type /Page", 3 >> >>
    /\ ObjectsAt(s.disk[s.m_file].lines, 0) = CrossRefPairs(s.m_crossRefs)
    /\ s.m_pageObjectNumbers = << 3 >>
    /\ s.m_contentStream = << >>
    /\ s.m_images = << >>

\* C35: Open on an instance with a document open leaves the instance as
\* Close followed by Open does; the file of the old document, unless it is
\* the one opened anew, holds what Close writes, ends with the EOF marker
\* and holds nothing of the new document; the new document starts with
\* object number 1 in its own file.
C35_OpenClosesTheOpenDocumentFirst ==
    [][(call'.op = "Open" /\ d.m_file # NULL) =>
          /\ \E z \in Plans(d, TRUE), filename \in names, fopenOk \in BOOLEAN :
                /\ z.deflate = call'.deflate
                /\ d' = Open(Close(d, z), filename, PageMinimum, PageMaximum, fopenOk, z)
                /\ d'.m_file # d.m_file =>
                      d'.disk[d.m_file] = Close(d, z).disk[d.m_file]
          /\ d'.m_file # d.m_file =>
                /\ IsFinalized(d'.disk[d.m_file].lines)
                /\ CloseWrites(d, Written(d, d'), done'.crossRefs)
          /\ d'.m_file # NULL => NewDocument(d', call'.got)
          /\ d'.m_file = NULL => InitialMembers(d')]_vars

\* Open began a second document in another file while the first, holding an
\* image, was open: the first file is complete.
C35_Witness ==
    /\ call.op = "Open"
    /\ call.wasOpen
    /\ d.m_file # NULL
    /\ done.intact
    /\ done.file # d.m_file
    /\ IsFinalized(DoneLines)
    /\ LinesOf(DoneLines, "/Im") # << >>
    /\ call.got = << 1, 2, 3, 4, 5 >>
\* ----------------------------------------------------------------- C36
\* The latest operator t among texts with its arguments, << >> when there is
\* none.
RECURSIVE LatestOp(_, _)
LatestOp(texts, t) ==
    IF texts = << >> THEN << >>
    ELSE IF texts[Len(texts)].t = t THEN << t, texts[Len(texts)].a >>
    ELSE LatestOp(SubSeq(texts, 1, Len(texts) - 1), t)

\* The colour and width operators of a line style, the colour operator of a
\* fill style.
StrokeColourOf(style) ==
    << "RG", << style.m_color.m_red, style.m_color.m_green, style.m_color.m_blue >> >>
StrokeWidthOf(style) == << "w", << style.m_width >> >>
FillColourOf(style) ==
    << "rg", << style.m_color.m_red, style.m_color.m_green, style.m_color.m_blue >> >>

\* A call appended an operator that strokes, resp. fills.
Strokes(before, after) ==
    \E k \in 1 .. Len(Appended(before, after)) : Appended(before, after)[k][1] \in {"S", "B*"}
Fills(before, after) ==
    \E k \in 1 .. Len(Appended(before, after)) : Appended(before, after)[k][1] \in {"f*", "B*"}

\* C36: whenever a draw call on an open document appends an operator that
\* strokes, the latest "RG" and "w" accumulated for the page before it are
\* those of the current line style, and whenever it appends one that fills,
\* the latest "rg" is that of the current fill style; so on every page.
C36_DrawsCarryTheCurrentStyleOnEveryPage ==
    [][(d.m_file # NULL /\ call'.op \in {"DrawLine", "DrawPolyline", "DrawPolygon"}) =>
          /\ Strokes(d, d') =>
                /\ LatestOp(d.m_contentStream, "RG") = StrokeColourOf(d.m_lineStyle)
                /\ LatestOp(d.m_contentStream, "w") = StrokeWidthOf(d.m_lineStyle)
          /\ Fills(d, d') =>
                LatestOp(d.m_contentStream, "rg") = FillColourOf(d.m_fillStyle)]_vars

\* What holds: the operators of the current style are the latest ones when
\* the page holds any; a page begun after the style was set holds none.
C36_DrawsCarryTheStyleOnThePageOfTheSetter ==
    [][(d.m_file # NULL /\ call'.op \in {"DrawLine", "DrawPolyline", "DrawPolygon"}) =>
          /\ (Strokes(d, d') /\ LatestOp(d.m_contentStream, "RG") # << >>) =>
                /\ LatestOp(d.m_contentStream, "RG") = StrokeColourOf(d.m_lineStyle)
                /\ LatestOp(d.m_contentStream, "w") = StrokeWidthOf(d.m_lineStyle)
          /\ (Fills(d, d') /\ LatestOp(d.m_contentStream, "rg") # << >>) =>
                LatestOp(d.m_contentStream, "rg") = FillColourOf(d.m_fillStyle)]_vars

\* A line was drawn on the second page in the style set on the first: the
\* page holds the path and the stroke only.
C36_Witness ==
    /\ call.op = "DrawLine"
    /\ d.m_file # NULL
    /\ ~d.nullDeref
    /\ session.nextPages = 1
    /\ d.m_lineStyle \in LineStyles
    /\ OperatorsIn(d.m_contentStream) = << "m", "l", "S" >>
\* ----------------------------------------------------------------- C37
\* C37: no call uses the file handle while it is null: in no reachable state
\* has a write or a position query been made on a null m_file, and no call
\* has stopped the program.
C37_NoCallUsesANullHandle ==
    /\ ~d.nullDeref
    /\ life # "aborted"

\* What holds: with no document open, every call but NextPage leaves the
\* handle unused and the files as they are, and Close changes nothing.
C37_OnlyNextPageUsesANullHandle ==
    [][(d.m_file = NULL /\ call'.op # "NextPage") =>
          /\ d'.nullDeref = d.nullDeref
          /\ life' # "aborted"
          /\ call'.op # "Open" => d'.disk = d.disk
          /\ call'.op \in {"Close", "~Draw2pdf"} => d' = d]_vars

\* NextPage was called with no document open and wrote through the null
\* handle.
C37_Witness ==
    /\ call.op = "NextPage"
    /\ ~call.wasOpen
    /\ d.nullDeref
\* ----------------------------------------------------------------- C38
\* The positions of the "stream" lines of a file, and for one of them the
\* position of the first "endstream" line after it (0 when there is none).
StreamsOf(lines) == { i \in 1 .. Len(lines) : lines[i].t = "stream" }
EndOf(lines, i) ==
    IF \E j \in i + 1 .. Len(lines) : lines[j].t = "endstream"
    THEN CHOOSE j \in i + 1 .. Len(lines) :
            /\ lines[j].t = "endstream"
            /\ \A k \in i + 1 .. j - 1 : lines[k].t # "endstream"
    ELSE 0

\* The stream opened at position i declares its length two lines before, is
\* closed by a line end and "endstream", and holds between the "stream" line
\* and that line end as many bytes as it declares; uncompressed content is
\* the accumulated texts, byte for byte.
LengthIsExact(lines, i) ==
    /\ i > 2
    /\ lines[i - 2].t = "/Length"
    /\ EndOf(lines, i) > i + 1
    /\ lines[EndOf(lines, i) - 1].t = "crlf"
    /\ Offset(lines, EndOf(lines, i) - 1) - Offset(lines, i + 1) = lines[i - 2].n
    /\ lines[i + 1].t \in {"content", "deflated content", "deflated image", "ascii85 image"}
    /\ lines[i + 1].t = "content" => Size(lines[i + 1].data) = lines[i - 2].n

\* C38: in every file, at every moment, each stream written declares as
\* /Length exactly the number of bytes between its "stream" line and the
\* line end before "endstream": content streams, compressed or not, and
\* images under either codec.
C38_DeclaredLengthIsThePayloadLength ==
    \A f \in Filenames : \A i \in StreamsOf(d.disk[f].lines) : LengthIsExact(d.disk[f].lines, i)

\* A finalized document holds a compressed content stream with a line drawn
\* and an image.
C38_Witness ==
    /\ call.finalized
    /\ \E i \in StreamsOf(DoneLines) :
          DoneLines[i + 1].t = "deflated content" /\ DoneLines[i - 2].n > 11
    /\ \E i \in StreamsOf(DoneLines) :
          DoneLines[i + 1].t \in {"deflated image", "ascii85 image"} /\ DoneLines[i - 2].n > 0
\* ----------------------------------------------------------------- C39
\* The calls that draw without taking an object number.
Draws == {"DrawLine", "DrawPolyline", "DrawPolygon", "DrawRectangle", "DrawTextString"}

\* C39: SetLineStyle and SetFillStyle change the accumulator, by appending,
\* and their style only; SetTextStyle changes the text style only; DrawLine,
\* DrawPolyline, DrawPolygon, DrawRectangle and DrawTextString change the
\* accumulator only, by appending; DrawImage appends to the accumulator,
\* appends one image that carries the counter's value, advances the counter
\* by one, and changes nothing else.  The counter, the cross-reference list,
\* the page list, the image list and the files are as before in all other
\* cases, and the files also after DrawImage.
C39_DrawingCallsChangeOnlyTheirOwnState ==
    [][/\ call'.op = "SetLineStyle" =>
             /\ [d' EXCEPT !.m_contentStream = d.m_contentStream,
                           !.m_lineStyle = d.m_lineStyle] = d
             /\ OnlyAppended(d, d')
       /\ call'.op = "SetFillStyle" =>
             /\ [d' EXCEPT !.m_contentStream = d.m_contentStream,
                           !.m_fillStyle = d.m_fillStyle] = d
             /\ OnlyAppended(d, d')
       /\ call'.op = "SetTextStyle" =>
             [d' EXCEPT !.m_textStyle = d.m_textStyle] = d
       /\ call'.op \in Draws =>
             /\ [d' EXCEPT !.m_contentStream = d.m_contentStream] = d
             /\ OnlyAppended(d, d')
       /\ call'.op = "DrawImage" =>
             /\ [d' EXCEPT !.m_contentStream = d.m_contentStream,
                           !.m_images = d.m_images,
                           !.m_objNumber = d.m_objNumber] = d
             /\ OnlyAppended(d, d')
             /\ Len(d'.m_images) = Len(d.m_images) + 1
             /\ SubSeq(d'.m_images, 1, Len(d.m_images)) = d.m_images
             /\ d'.m_images[Len(d'.m_images)].m_objNum = d.m_objNumber
             /\ d'.m_objNumber = d.m_objNumber + 1
             /\ d'.m_crossRefs = d.m_crossRefs
             /\ d'.m_pageObjectNumbers = d.m_pageObjectNumbers
             /\ d'.disk = d.disk
       /\ call'.op \in Draws \cup {"SetLineStyle", "SetFillStyle", "SetTextStyle"} =>
             /\ d'.m_objNumber = d.m_objNumber
             /\ d'.m_crossRefs = d.m_crossRefs
             /\ d'.m_pageObjectNumbers = d.m_pageObjectNumbers
             /\ d'.m_images = d.m_images
             /\ d'.m_file = d.m_file
             /\ d'.disk = d.disk]_vars

\* On an open document whose page holds a text and a rectangle, DrawImage
\* took number 6.
C39_Witness ==
    /\ call.op = "DrawImage"
    /\ d.m_file # NULL
    /\ d.disk[d.m_file].lines # << >>
    /\ Len(d.m_images) = 1
    /\ d.m_images[1].m_objNum = 6
    /\ d.m_objNumber = 7
    /\ \E k \in 1 .. Len(d.m_contentStream) : d.m_contentStream[k].t = "Tj"
    /\ \E k \in 1 .. Len(d.m_contentStream) : d.m_contentStream[k].t = "h"
====
